---------------------------- MODULE Spec2Model ----------------------------
(***************************************************************************)
(* A model of the protein viewer: the App controller (asynchronous loads   *)
(* and visualizations), the ProteinVisualizer's bond inference, line       *)
(* geometry and chain colouring, and the fixed-column PDB parser.          *)
(*                                                                         *)
(* Lengths are in tenths of an Angstrom so that every coordinate is an     *)
(* integer: 2.0 A is 20, a squared distance of 4.0 is 400, of 25.0 is 2500.*)
(***************************************************************************)
EXTENDS Integers, Sequences, FiniteSets, TLC

VARIABLES
    \* ---- App (src/unnamed/part_000)
    proteinData,            \* App.proteinData: id of the installed data, or NoData
    proteinObject,          \* App.proteinObject: id of the referenced object, or NoObject
    scene,                  \* protein objects currently in App.scene
    disposed,               \* protein objects given to disposeRepresentation
    added,                  \* protein objects that were ever added to the scene
    currentRepresentation,  \* App.currentRepresentation
    currentShaderName,      \* App.currentShaderName
    loadState,              \* per load request: "idle", "pending", "ok", "empty", "error"
    loadOrder,              \* the load requests in the order they were started
    vizRuns,                \* visualizeProtein runs suspended at their await
    objInfo,                \* per created object: the data and settings it was built from
    nextObject,             \* id of the next object createRepresentation makes
    shaderCache,            \* ShaderManager.shaderCache: shader names already loaded
    loadingShown,           \* the loading indicator
    \* ---- pure operations under check
    atoms,                  \* input of createBondsGeometry
    geometry,               \* its result
    chainColorMap,          \* ProteinVisualizer.chainColorMap, chains in insertion order
    colorLog,               \* first-time colour assignments: [id, n at that moment, color]
    lastCall,               \* the last call made on the visualizer's colour map
    pdbText,                \* input of parsePDB
    parsed,                 \* its result
    \* ---- Exporter (src/js/utils/Exporter.js) and its surroundings
    renderer,               \* the WebGLRenderer: [width, height, pixelRatio]
    camera,                 \* the camera: [aspect], a fraction [num, den]
    devicePixelRatio,       \* window.devicePixelRatio
    exportCall,             \* the exportPNG call made in the last step, or NoExport
    \* ---- ShaderManager.createMaterial (src/unnamed/part_001)
    material,               \* the material createMaterial resolved to
    materialCall,           \* the createMaterial call made in the last step
    \* ---- Controls (src/js/ui/Controls.js) and the App's colour state
    params,                 \* Controls.params: the values the GUI shows
    currentColorMode,       \* App.currentColorMode
    currentSolidColor,      \* App.currentSolidColor
    objUniforms,            \* per created object: finalUniforms of its shaderParams
    objectMaterial,         \* App.proteinObject.material, or NoMaterial without object
    guiEvents,              \* number of changes made in the GUI so far
    phase                   \* position of the pure-operation specifications

appVars == <<proteinData, proteinObject, scene, disposed, added, currentRepresentation,
             currentShaderName, loadState, loadOrder, vizRuns, objInfo, nextObject,
             shaderCache, loadingShown>>
geoVars == <<atoms, geometry>>
colVars == <<chainColorMap, colorLog, lastCall>>
parseVars == <<pdbText, parsed>>
exportVars == <<renderer, camera, devicePixelRatio, exportCall>>
shaderVars == <<material, materialCall>>
guiVars == <<params, currentColorMode, currentSolidColor, objUniforms, objectMaterial,
             guiEvents>>
vars == <<appVars, geoVars, colVars, parseVars, exportVars, shaderVars, guiVars, phase>>

\* ------------------------------------------------------------------ bounds
MaxLoads == 2
MaxObjects == 2
MaxAtoms == 3
MaxCalls == 3
MaxLines == 3
MaxSize == 2
MaxGuiEvents == 3

\* ------------------------------------------------------------------ App
NoData == 0
NoObject == 0
Representations == {"lines", "cartoon"}
ShaderNames == {"base", "toon", "metallic"}
LoadIds == 1..MaxLoads
ObjectIds == 1..MaxObjects
NoInfo == [data |-> NoData, rep |-> "lines", shader |-> "base"]

\* Controls.params as the constructor sets them; colours are '#rrggbb' strings.
White == 16777215
Black == 0
Green == 65280
Silver == 12632256
DefaultParams ==
    [representation |-> "cartoon", shader |-> "base", coloring |-> "chain", solidColor |-> Green,
     base_baseColor |-> White, toon_outlineColor |-> Black,
     toon_outlineThickness |-> 20, toon_numSteps |-> 4000,
     metallic_baseColor |-> Silver, metallic_roughness |-> 300,
     metallic_metallic |-> 900]

\* No protein object, so no material; no visualization, so no uniforms.
NoUniforms == [n \in {} |-> 0]
NoMaterial == [kind |-> "none"]

AppInit ==
    /\ proteinData = NoData
    /\ proteinObject = NoObject
    /\ scene = {}
    /\ disposed = {}
    /\ added = {}
    /\ currentRepresentation = "lines"
    /\ currentShaderName = "base"
    /\ loadState = [l \in LoadIds |-> "idle"]
    /\ loadOrder = <<>>
    /\ vizRuns = {}
    /\ objInfo = [o \in ObjectIds |-> NoInfo]
    /\ nextObject = 1
    /\ shaderCache = {}
    /\ loadingShown = FALSE
    /\ params = DefaultParams
    /\ currentColorMode = "chain"
    /\ currentSolidColor = White
    /\ objUniforms = [o \in ObjectIds |-> NoUniforms]
    /\ objectMaterial = NoMaterial
    /\ guiEvents = 0

DataHasAtoms(d) == d # NoData /\ loadState[d] = "ok"

\* disposeProteinObject: remove from the scene, dispose, forget.
SceneAfterDispose == IF proteinObject # NoObject THEN scene \ {proteinObject} ELSE scene
DisposedAfterDispose == IF proteinObject # NoObject THEN disposed \cup {proteinObject} ELSE disposed

\* createRepresentation's result at the moment it is called: the new object's id.
NewInfo(data, rep, shader) == [data |-> data, rep |-> rep, shader |-> shader]

\* visualizeProtein, called with the fields the caller has just set. hasAtoms: the
\* data holds atoms (createRepresentation returns null otherwise). hideAfter: the
\* caller's own finally-block hides the loading indicator right after the call.
\* With the shader source cached every await resolves without leaving the task, so
\* the run finishes within the caller's step; otherwise it suspends on the fetch.
VisualizeProtein(data, hasAtoms, rep, shader, hideAfter) ==
    IF data = NoData
    THEN /\ UNCHANGED <<proteinObject, scene, disposed, added, vizRuns, objInfo,
                        nextObject>>
         /\ loadingShown' = IF hideAfter THEN FALSE ELSE loadingShown
    ELSE IF ~hasAtoms
    THEN /\ proteinObject' = NoObject
         /\ scene' = SceneAfterDispose
         /\ disposed' = DisposedAfterDispose
         /\ loadingShown' = FALSE
         /\ UNCHANGED <<added, vizRuns, objInfo, nextObject>>
    ELSE /\ nextObject <= MaxObjects
         /\ objInfo' = [objInfo EXCEPT ![nextObject] = NewInfo(data, rep, shader)]
         /\ nextObject' = nextObject + 1
         /\ disposed' = DisposedAfterDispose
         /\ IF shader \in shaderCache
            THEN /\ proteinObject' = nextObject
                 /\ scene' = SceneAfterDispose \cup {nextObject}
                 /\ added' = added \cup {nextObject}
                 /\ loadingShown' = FALSE
                 /\ UNCHANGED vizRuns
            ELSE /\ proteinObject' = NoObject
                 /\ scene' = SceneAfterDispose
                 /\ vizRuns' = vizRuns \cup {nextObject}
                 /\ loadingShown' = ~hideAfter
                 /\ UNCHANGED added

\* ProteinLoader.parsePDB on a text in which PDBLoader.parse finds atomCount
\* atoms: the processed structure is returned whether or not it holds atoms (no
\* atoms is a console warning), and loadFromFile / loadExample resolve with it.
LoaderParsePDB(atomCount) == IF atomCount = 0 THEN "empty" ELSE "ok"

\* The specifications in which loads run: the App alone, and the App with its GUI.
AppPhases == {"app", "gui"}

\* loadPDBFile / loadPDBExample up to their await.
LoadPDB ==
    /\ phase \in AppPhases
    /\ Len(loadOrder) < MaxLoads
    /\ LET l == Len(loadOrder) + 1 IN
         /\ loadState' = [loadState EXCEPT ![l] = "pending"]
         /\ loadOrder' = Append(loadOrder, l)
    /\ loadingShown' = TRUE
    /\ UNCHANGED <<proteinData, proteinObject, scene, disposed, added,
                   currentRepresentation, currentShaderName, vizRuns, objInfo,
                   nextObject, shaderCache>>
    /\ UNCHANGED <<geoVars, colVars, parseVars, exportVars, shaderVars, guiVars, phase>>

\* The loader's promise resolves: handlePDBLoaded, then the finally-block.
LoadResolved(l, outcome) ==
    /\ phase = "app"
    /\ loadState[l] = "pending"
    /\ outcome \in {"ok", "empty"}
    /\ loadState' = [loadState EXCEPT ![l] = outcome]
    /\ proteinData' = l
    /\ VisualizeProtein(l, outcome = "ok", currentRepresentation, currentShaderName, TRUE)
    /\ UNCHANGED <<currentRepresentation, currentShaderName, loadOrder, shaderCache>>
    /\ UNCHANGED <<geoVars, colVars, parseVars, exportVars, shaderVars, guiVars, phase>>

\* handlePDBLoadError as it would be if it also dropped the loaded data.
LoadRejectedClearing(l) ==
    /\ phase \in AppPhases
    /\ loadState[l] = "pending"
    /\ loadState' = [loadState EXCEPT ![l] = "error"]
    /\ loadingShown' = FALSE
    /\ proteinData' = NoData
    /\ UNCHANGED <<proteinObject, scene, disposed, added,
                   currentRepresentation, currentShaderName, loadOrder, vizRuns,
                   objInfo, nextObject, shaderCache>>
    /\ UNCHANGED <<geoVars, colVars, parseVars, exportVars, shaderVars, guiVars, phase>>

\* The loader's promise rejects: handlePDBLoadError, then the finally-block.
LoadRejected(l) ==
    /\ phase \in AppPhases
    /\ loadState[l] = "pending"
    /\ loadState' = [loadState EXCEPT ![l] = "error"]
    /\ loadingShown' = FALSE
    /\ UNCHANGED <<proteinData, proteinObject, scene, disposed, added,
                   currentRepresentation, currentShaderName, loadOrder, vizRuns,
                   objInfo, nextObject, shaderCache>>
    /\ UNCHANGED <<geoVars, colVars, parseVars, exportVars, shaderVars, guiVars, phase>>

\* A suspended visualizeProtein resumes: this.proteinObject = <the new object>,
\* scene.add, and the finally-block. fetched: the shader source arrived (it is then
\* cached); otherwise the built-in source was used and nothing is cached.
VisualizeResumed(o, fetched) ==
    /\ phase = "app"
    /\ o \in vizRuns
    /\ vizRuns' = vizRuns \ {o}
    /\ proteinObject' = o
    /\ scene' = scene \cup {o}
    /\ added' = added \cup {o}
    /\ shaderCache' = IF fetched THEN shaderCache \cup {objInfo[o].shader} ELSE shaderCache
    /\ loadingShown' = FALSE
    /\ UNCHANGED <<proteinData, disposed, currentRepresentation, currentShaderName,
                   loadState, loadOrder, objInfo, nextObject>>
    /\ UNCHANGED <<geoVars, colVars, parseVars, exportVars, shaderVars, guiVars, phase>>

setRepresentation(type) ==
    /\ phase = "app"
    /\ type # currentRepresentation
    /\ currentRepresentation' = type
    /\ VisualizeProtein(proteinData, DataHasAtoms(proteinData), type, currentShaderName, FALSE)
    /\ UNCHANGED <<proteinData, currentShaderName, loadState, loadOrder, shaderCache>>
    /\ UNCHANGED <<geoVars, colVars, parseVars, exportVars, shaderVars, guiVars, phase>>

setActiveShader(shaderName) ==
    /\ phase = "app"
    /\ shaderName # currentShaderName
    /\ currentShaderName' = shaderName
    /\ VisualizeProtein(proteinData, DataHasAtoms(proteinData), currentRepresentation, shaderName, FALSE)
    /\ UNCHANGED <<proteinData, currentRepresentation, loadState, loadOrder, shaderCache>>
    /\ UNCHANGED <<geoVars, colVars, parseVars, exportVars, shaderVars, guiVars, phase>>

\* ------------------------------------------------- ProteinVisualizer: colours
\* The palette, as the 24-bit numbers of the source (0x1f77b4, 0xff7f0e, ...).
chainColors == <<2062260, 16744206, 2924588, 14034728, 9725885, 9197131, 14907330, 8355711, 12369186, 1556175, 11454440, 16759672, 10018698, 16750742, 12955861>>
ColorR(c) == c \div 65536
ColorG(c) == (c \div 256) % 256
ColorB(c) == c % 256
PaletteAt(k) == chainColors[(k % Len(chainColors)) + 1]

\* chainColorMap is a JS Map: entries [id, color] in insertion order.
Has(map, id) == \E i \in 1..Len(map) : map[i].id = id
ColorOf(map, id) == map[CHOOSE i \in 1..Len(map) : map[i].id = id].color

\* chainColorMap.set(id, color) for an id that has no colour yet. The log notes
\* how many chains had a colour at that moment.
SetColor(st, id, color) ==
    [st EXCEPT !.map = Append(@, [id |-> id, color |-> color]),
               !.log = Append(@, [id |-> id, n |-> Len(st.map), color |-> color])]

\* assignChainColors without the has() test: every listed chain is set again,
\* the i-th of the call to the i-th palette entry.
assignChainColorsOverwriting(st, chainIDs) ==
    LET Others(map, id) == SelectSeq(map, LAMBDA e : e.id # id)
        F[i \in 0..Len(chainIDs)] ==
            IF i = 0 THEN st
            ELSE SetColor([F[i-1] EXCEPT !.map = Others(@, chainIDs[i])], chainIDs[i],
                          PaletteAt(i - 1))
    IN F[Len(chainIDs)]

\* assignChainColors: colorIndex starts at 0 on every call.
assignChainColors(st, chainIDs) ==
    LET F[i \in 0..Len(chainIDs)] ==
            IF i = 0 THEN [st |-> st, colorIndex |-> 0]
            ELSE IF ~Has(F[i-1].st.map, chainIDs[i])
                 THEN [st |-> SetColor(F[i-1].st, chainIDs[i], PaletteAt(F[i-1].colorIndex)),
                       colorIndex |-> F[i-1].colorIndex + 1]
                 ELSE F[i-1]
    IN F[Len(chainIDs)].st

\* getChainColor: its effect on the map, and the colour it returns.
getChainColorState(st, chainID) ==
    IF ~Has(st.map, chainID)
    THEN SetColor(st, chainID, PaletteAt(Len(st.map)))
    ELSE st
getChainColor(st, chainID) == ColorOf(getChainColorState(st, chainID).map, chainID)

\* ------------------------------------------ ProteinVisualizer: bond inference
BOND_DISTANCE_THRESHOLD == 20
BOND_DISTANCE_SQ_THRESHOLD == BOND_DISTANCE_THRESHOLD * BOND_DISTANCE_THRESHOLD
BackboneMaxDistSq == 2500

DistSq(a, b) ==
    (a.x - b.x) * (a.x - b.x) + (a.y - b.y) * (a.y - b.y) + (a.z - b.z) * (a.z - b.z)

\* PushBond with the colour pushed for one of the two vertices only.
PushBondOneColor(st, a1, a2, color, step) ==
    [st EXCEPT !.positions = @ \o <<a1.x, a1.y, a1.z, a2.x, a2.y, a2.z>>,
               !.colors = @ \o <<ColorR(color), ColorG(color), ColorB(color)>>,
               !.bonds = Append(@, [a |-> a1.idx, b |-> a2.idx, step |-> step])]

\* positions.push(a1.x, a1.y, a1.z); positions.push(a2.x, a2.y, a2.z);
\* colors.push(r, g, b) twice. bonds notes which input atoms the segment joins
\* and which bonding step emitted it.
PushBond(st, a1, a2, color, step) ==
    [st EXCEPT !.positions = @ \o <<a1.x, a1.y, a1.z, a2.x, a2.y, a2.z>>,
               !.colors = @ \o <<ColorR(color), ColorG(color), ColorB(color),
                                 ColorR(color), ColorG(color), ColorB(color)>>,
               !.bonds = Append(@, [a |-> a1.idx, b |-> a2.idx, step |-> step])]

\* The distinct elements of a sequence in the order they first occur.
DistinctInOrder(s) ==
    LET F[i \in 0..Len(s)] ==
            IF i = 0 THEN <<>>
            ELSE IF \E j \in 1..Len(F[i-1]) : F[i-1][j] = s[i]
                 THEN F[i-1]
                 ELSE Append(F[i-1], s[i])
    IN F[Len(s)]

\* A set of integers as an ascending sequence ([...keys].sort((a, b) => a - b)).
SortedAscending(S) ==
    LET F[T \in SUBSET S] ==
            IF T = {} THEN <<>>
            ELSE LET m == CHOOSE x \in T : \A y \in T : x <= y
                 IN <<m>> \o F[T \ {m}]
    IN F[S]

\* Property keys that are array indices ("0", "1", ...) and their values.
IndexKeyValue == ("0" :> 0) @@ ("1" :> 1) @@ ("2" :> 2) @@ ("3" :> 3) @@ ("4" :> 4)
                 @@ ("5" :> 5) @@ ("6" :> 6) @@ ("7" :> 7) @@ ("8" :> 8) @@ ("9" :> 9)
IsIndexKey(k) == k \in DOMAIN IndexKeyValue

\* Object.keys / for-in of a plain object whose keys were created in the order
\* `inserted`: the array-index keys first, ascending, then the others as created.
ObjectKeys(inserted) ==
    LET idxKeys == {inserted[i] : i \in {j \in DOMAIN inserted : IsIndexKey(inserted[j])}}
        idxVals == SortedAscending({IndexKeyValue[k] : k \in idxKeys})
        KeyOfValue(v) == CHOOSE k \in idxKeys : IndexKeyValue[k] = v
    IN [i \in 1..Len(idxVals) |-> KeyOfValue(idxVals[i])]
       \o SelectSeq(inserted, LAMBDA k : ~IsIndexKey(k))

\* array.sort((a, b) => a.resSeq - b.resSeq): stable.
SortByResSeq(s) ==
    LET Insert(sorted, a) ==
            LET pos == Cardinality({i \in DOMAIN sorted : sorted[i].resSeq <= a.resSeq})
            IN SubSeq(sorted, 1, pos) \o <<a>> \o SubSeq(sorted, pos + 1, Len(sorted))
        F[i \in 0..Len(s)] == IF i = 0 THEN <<>> ELSE Insert(F[i-1], s[i])
    IN F[Len(s)]

\* The normalisation at the head of preprocessAtoms' loop (x || default).
NormalizeAtom(atom) ==
    LET chainID == IF atom.chainID = "" THEN "A" ELSE atom.chainID
        resSeq == IF atom.resSeq = 0 THEN 1 ELSE atom.resSeq
        resName == IF atom.resName = "" THEN "UNK" ELSE atom.resName
        name == IF atom.name # "" THEN atom.name
                ELSE IF atom.element # "" THEN atom.element ELSE "X"
    IN [atom EXCEPT !.chainID = chainID, !.resSeq = resSeq, !.resName = resName,
                    !.name = name]

\* `${chainID}_${resSeq}_${resName}`
ResidueKey(a) == <<a.chainID, a.resSeq, a.resName>>

\* preprocessAtoms: chainGroups and residueGroups, each a sequence of
\* [key, atoms] in the order a for-in loop visits the object.
preprocessAtoms(atomsIn) ==
    LET norm == [i \in DOMAIN atomsIn |-> NormalizeAtom(atomsIn[i])]
        chainKeys == ObjectKeys(DistinctInOrder([i \in DOMAIN norm |-> norm[i].chainID]))
        residueKeys == DistinctInOrder([i \in DOMAIN norm |-> ResidueKey(norm[i])])
    IN [chainGroups |->
            [k \in DOMAIN chainKeys |->
                [key |-> chainKeys[k],
                 atoms |-> SortByResSeq(SelectSeq(norm, LAMBDA a : a.chainID = chainKeys[k]))]],
        residueGroups |->
            [k \in DOMAIN residueKeys |->
                [key |-> residueKeys[k],
                 atoms |-> SelectSeq(norm, LAMBDA a : ResidueKey(a) = residueKeys[k])]]]

\* The index pairs (i, j), i < j, in the order of the nested loops.
PairsInLoopOrder(n) ==
    LET F[i \in 0..n] ==
            IF i = 0 THEN <<>> ELSE F[i-1] \o [j \in 1..(n - i) |-> <<i, i + j>>]
    IN F[n]

\* The body of the pair loop: a bond when the two atoms are close enough.
IntraPair(st, atom1, atom2, chainColor) ==
    IF DistSq(atom1, atom2) <= BOND_DISTANCE_SQ_THRESHOLD
    THEN PushBond(st, atom1, atom2, chainColor, "intra")
    ELSE st

\* The nested i < j loops over one residue's atoms.
IntraResidue(st1, residueAtoms, pairs, chainColor) ==
    LET P[k \in 0..Len(pairs)] ==
            IF k = 0 THEN st1
            ELSE IntraPair(P[k-1], residueAtoms[pairs[k][1]], residueAtoms[pairs[k][2]],
                           chainColor)
    IN P[Len(pairs)]

\* One pass of the for-in loop over residueGroups.
IntraBondsOfResidue(st, g) ==
    IntraResidue(getChainColorState(st, g.atoms[1].chainID), g.atoms,
                 PairsInLoopOrder(Len(g.atoms)), getChainColor(st, g.atoms[1].chainID))

generateIntraResidueBonds(residueGroups, st0) ==
    LET R[k \in 0..Len(residueGroups)] ==
            IF k = 0 THEN st0 ELSE IntraBondsOfResidue(R[k-1], residueGroups[k])
    IN R[Len(residueGroups)]

\* array.find(atom => atom.name === name): the index of the first, or 0.
FindNamed(s, name) ==
    IF \E i \in DOMAIN s : s[i].name = name
    THEN CHOOSE i \in DOMAIN s : s[i].name = name /\ \A j \in 1..(i-1) : s[j].name # name
    ELSE 0

\* The body of the closest-pair loops: distSq < minDist && distSq < 25.0, with
\* minDist starting at Infinity.
ClosestStep(best, distSq, i, j) ==
    IF (~best.found \/ distSq < best.minDist) /\ distSq < BackboneMaxDistSq
    THEN [found |-> TRUE, minDist |-> distSq, i |-> i, j |-> j]
    ELSE best

\* The closest-pair loops of generateBackboneBonds: [found, minDist, i, j].
ClosestPair(currentResAtoms, nextResAtoms) ==
    LET n == Len(nextResAtoms)
        F[k \in 0..(Len(currentResAtoms) * n)] ==
            IF k = 0 THEN [found |-> FALSE, minDist |-> 0, i |-> 0, j |-> 0]
            ELSE ClosestStep(F[k-1],
                             DistSq(currentResAtoms[((k - 1) \div n) + 1],
                                    nextResAtoms[((k - 1) % n) + 1]),
                             ((k - 1) \div n) + 1, ((k - 1) % n) + 1)
    IN F[Len(currentResAtoms) * n]

\* The bond between two consecutive residues: C to N when both are there, else
\* the closest pair found, else none.
BackbonePair(st, currentResAtoms, nextResAtoms, c, n, closest, chainColor) ==
    IF c # 0 /\ n # 0
    THEN PushBond(st, currentResAtoms[c], nextResAtoms[n], chainColor, "backbone")
    ELSE IF closest.found
    THEN PushBond(st, currentResAtoms[closest.i], nextResAtoms[closest.j], chainColor,
                  "backbone")
    ELSE st

\* One pass of the loop over residueNumbers: skipped when the gap exceeds 1.
BackboneStep(st, currentResAtoms, nextResAtoms, gap, chainColor) ==
    IF gap > 1 THEN st
    ELSE BackbonePair(st, currentResAtoms, nextResAtoms, FindNamed(currentResAtoms, "C"),
                      FindNamed(nextResAtoms, "N"),
                      ClosestPair(currentResAtoms, nextResAtoms), chainColor)

\* residueMap.get(r): the chain's atoms of residue number r.
ResAtoms(chainAtoms, r) == SelectSeq(chainAtoms, LAMBDA a : a.resSeq = r)

BackboneChain(st1, chainAtoms, residueNumbers, chainColor) ==
    LET P[i \in 0..(Len(residueNumbers) - 1)] ==
            IF i = 0 THEN st1
            ELSE BackboneStep(P[i-1], ResAtoms(chainAtoms, residueNumbers[i]),
                              ResAtoms(chainAtoms, residueNumbers[i + 1]),
                              residueNumbers[i + 1] - residueNumbers[i], chainColor)
    IN P[Len(residueNumbers) - 1]

\* One pass of the for-in loop over chainGroups.
BackboneBondsOfChain(st, g) ==
    BackboneChain(getChainColorState(st, g.key), g.atoms,
                  SortedAscending({g.atoms[i].resSeq : i \in DOMAIN g.atoms}),
                  getChainColor(st, g.key))

generateBackboneBonds(chainGroups, st0) ==
    LET R[k \in 0..Len(chainGroups)] ==
            IF k = 0 THEN st0 ELSE BackboneBondsOfChain(R[k-1], chainGroups[k])
    IN R[Len(chainGroups)]

\* `${ix},${iy},${iz}` with ix = Math.floor(x / cellSize).
CellOf(atom, cellSize) == <<atom.x \div cellSize, atom.y \div cellSize, atom.z \div cellSize>>

\* createSpatialGrid: grid[key] is the atoms of that cell in input order.
createSpatialGrid(atomsIn, cellSize) ==
    [i \in DOMAIN atomsIn |-> [key |-> CellOf(atomsIn[i], cellSize), atom |-> atomsIn[i]]]
GridCell(grid, key) ==
    LET hits == SelectSeq(grid, LAMBDA e : e.key = key)
    IN [i \in DOMAIN hits |-> hits[i].atom]

\* getNeighborsFromGrid: the 27 cells around the atom, in loop order.
getNeighborsFromGrid(grid, atom) ==
    LET cell == CellOf(atom, BOND_DISTANCE_THRESHOLD)
        F[k \in 0..27] ==
            IF k = 0 THEN <<>>
            ELSE LET dx == ((k - 1) \div 9) - 1
                     dy == (((k - 1) \div 3) % 3) - 1
                     dz == ((k - 1) % 3) - 1
                 IN F[k-1] \o GridCell(grid, <<cell[1] + dx, cell[2] + dy, cell[3] + dz>>)
    IN F[27]

\* atom.chainID || 'A'
ChainIdOrDefault(a) == IF a.chainID = "" THEN "A" ELSE a.chainID

\* `${Math.min(serial1, serial2)}_${Math.max(serial1, serial2)}`
BondKey(atom, neighbor) ==
    IF atom.serial < neighbor.serial
    THEN <<atom.serial, neighbor.serial>>
    ELSE <<neighbor.serial, atom.serial>>

\* The body of the loop over an atom's neighbours.
NeighborStep(acc, atom, neighbor, chainColor) ==
    IF atom.idx = neighbor.idx THEN acc
    ELSE IF BondKey(atom, neighbor) \in acc.bondSet THEN acc
    ELSE IF DistSq(atom, neighbor) <= BOND_DISTANCE_SQ_THRESHOLD
    THEN [st |-> PushBond(acc.st, atom, neighbor, chainColor, "grid"),
          bondSet |-> acc.bondSet \cup {BondKey(atom, neighbor)}]
    ELSE [st |-> acc.st, bondSet |-> acc.bondSet \cup {BondKey(atom, neighbor)}]

NeighborBondsOfAtom(st1, bondSet, atom, neighbors, chainColor) ==
    LET P[k \in 0..Len(neighbors)] ==
            IF k = 0 THEN [st |-> st1, bondSet |-> bondSet]
            ELSE NeighborStep(P[k-1], atom, neighbors[k], chainColor)
    IN P[Len(neighbors)]

\* The loop over all atoms, after the chain colours and the grid are set up.
NearestNeighborLoop(atomsIn, stA, grid) ==
    LET R[k \in 0..Len(atomsIn)] ==
            IF k = 0 THEN [st |-> stA, bondSet |-> {}]
            ELSE NeighborBondsOfAtom(
                     getChainColorState(R[k-1].st, ChainIdOrDefault(atomsIn[k])),
                     R[k-1].bondSet, atomsIn[k], getNeighborsFromGrid(grid, atomsIn[k]),
                     getChainColor(R[k-1].st, ChainIdOrDefault(atomsIn[k])))
    IN R[Len(atomsIn)].st

generateNearestNeighborBonds(atomsIn, st0) ==
    NearestNeighborLoop(
        atomsIn,
        assignChainColors(st0, ObjectKeys(DistinctInOrder(
            [i \in DOMAIN atomsIn |-> ChainIdOrDefault(atomsIn[i])]))),
        createSpatialGrid(atomsIn, BOND_DISTANCE_THRESHOLD))

\* createFallbackGeometry: new THREE.SphereGeometry(2, 16, 12), every vertex red.
\* The sphere has (16 + 1) * (12 + 1) vertices; their coordinates are the
\* library's and are written 0 here.
SphereWidthSegments == 16
SphereHeightSegments == 12
FallbackVertexCount == (SphereWidthSegments + 1) * (SphereHeightSegments + 1)
createFallbackGeometry ==
    [kind |-> "fallback",
     positions |-> [i \in 1..(3 * FallbackVertexCount) |-> 0],
     colors |-> [i \in 1..(3 * FallbackVertexCount) |-> IF i % 3 = 1 THEN 255 ELSE 0],
     bonds |-> <<>>]

\* if (positions.length === 0) generateNearestNeighborBonds(...)
NearestIfEmpty(atomsIn, st) ==
    IF Len(st.positions) = 0 THEN generateNearestNeighborBonds(atomsIn, st) ELSE st

\* GeometryResult without the final check for an empty position list.
GeometryResultUnchecked(st) ==
    [geometry |-> [kind |-> "bonds", positions |-> st.positions,
                   colors |-> st.colors, bonds |-> st.bonds],
     map |-> st.map, log |-> st.log]

\* if (positions.length === 0) return createFallbackGeometry(); else the
\* BufferGeometry with its position and color attributes.
GeometryResult(st) ==
    [geometry |-> IF Len(st.positions) = 0
                  THEN createFallbackGeometry
                  ELSE [kind |-> "bonds", positions |-> st.positions,
                        colors |-> st.colors, bonds |-> st.bonds],
     map |-> st.map, log |-> st.log]

\* The steps of createBondsGeometry after preprocessAtoms.
BondsFromGroups(atomsIn, pre, st0) ==
    GeometryResult(NearestIfEmpty(atomsIn,
        generateBackboneBonds(pre.chainGroups,
            generateIntraResidueBonds(pre.residueGroups,
                assignChainColors(st0, [k \in DOMAIN pre.chainGroups |->
                                            pre.chainGroups[k].key])))))

\* createBondsGeometry on the visualizer whose colour map is cm = [map, log]:
\* the geometry returned and the colour map afterwards.
createBondsGeometry(atomsIn, cm) ==
    IF Len(atomsIn) = 0
    THEN [geometry |-> createFallbackGeometry, map |-> cm.map, log |-> cm.log]
    ELSE BondsFromGroups(atomsIn, preprocessAtoms(atomsIn),
                         [positions |-> <<>>, colors |-> <<>>, bonds |-> <<>>,
                          map |-> cm.map, log |-> cm.log])

\* ----------------------------------------- ProteinVisualizer: cartoon geometry
\* ELEMENT_DATA's radii, in hundredths; 'X' is the entry for unknown elements.
ElementRadius ==
    ("C" :> 77) @@ ("N" :> 74) @@ ("O" :> 74) @@ ("S" :> 102) @@ ("P" :> 110)
    @@ ("H" :> 37) @@ ("X" :> 80)
\* String.prototype.toUpperCase on the element symbols of the inputs.
UpperCaseOf == ("c" :> "C") @@ ("n" :> "N") @@ ("zn" :> "ZN")
toUpperCase(str) == IF str \in DOMAIN UpperCaseOf THEN UpperCaseOf[str] ELSE str
\* atom.element?.toUpperCase() || 'X', then ELEMENT_DATA[element] || ELEMENT_DATA['X'].
ElementOf(atom) == IF toUpperCase(atom.element) = "" THEN "X" ELSE toUpperCase(atom.element)
ElementDataRadius(atom) ==
    IF ElementOf(atom) \in DOMAIN ElementRadius
    THEN ElementRadius[ElementOf(atom)]
    ELSE ElementRadius["X"]

\* new THREE.SphereGeometry(0.2, 8, 6): (8 + 1) * (6 + 1) vertices.
TemplateWidthSegments == 8
TemplateHeightSegments == 6
TemplateVertexCount == (TemplateWidthSegments + 1) * (TemplateHeightSegments + 1)

\* The vertices of one atom's sphere: the template's vertices scaled by the
\* radius and moved to the atom. The template's own coordinates are the
\* library's and are written 0 here, which leaves the atom's position.
SphereOfAtom(st, atom, radius, chainColor) ==
    [st EXCEPT
        !.positions = @ \o [i \in 1..(3 * TemplateVertexCount) |->
                              IF i % 3 = 1 THEN atom.x + 0 * radius
                              ELSE IF i % 3 = 2 THEN atom.y + 0 * radius
                              ELSE atom.z + 0 * radius],
        !.colors = @ \o [i \in 1..(3 * TemplateVertexCount) |->
                           IF i % 3 = 1 THEN ColorR(chainColor)
                           ELSE IF i % 3 = 2 THEN ColorG(chainColor)
                           ELSE ColorB(chainColor)]]

\* One pass of createAtomSphereGeometry's loop over the atoms.
SphereStep(st, atom) ==
    SphereOfAtom(getChainColorState(st, ChainIdOrDefault(atom)), atom,
                 (ElementDataRadius(atom) * 7) \div 10,
                 getChainColor(st, ChainIdOrDefault(atom)))

createAtomSphereGeometry(atomsIn, st0) ==
    LET R[k \in 0..Len(atomsIn)] ==
            IF k = 0 THEN st0 ELSE SphereStep(R[k-1], atomsIn[k])
    IN R[Len(atomsIn)]

\* The BufferGeometry createAtomSphereGeometry returns, and the colour map.
SpheresResult(st) ==
    [geometry |-> [kind |-> "spheres", positions |-> st.positions, colors |-> st.colors,
                   bonds |-> <<>>],
     map |-> st.map, log |-> st.log]

\* The chain IDs of preprocessAtoms' chainGroups, as Object.keys lists them.
ChainKeysOf(pre) == [k \in DOMAIN pre.chainGroups |-> pre.chainGroups[k].key]

\* createCartoonGeometry on the visualizer whose colour map is cm = [map, log].
createCartoonGeometry(atomsIn, cm) ==
    IF Len(atomsIn) = 0
    THEN [geometry |-> createFallbackGeometry, map |-> cm.map, log |-> cm.log]
    ELSE SpheresResult(createAtomSphereGeometry(
             atomsIn,
             assignChainColors([positions |-> <<>>, colors |-> <<>>, bonds |-> <<>>,
                                map |-> cm.map, log |-> cm.log],
                               ChainKeysOf(preprocessAtoms(atomsIn)))))

\* ------------------------------------------- the tools when they are not used
\* The quotient a / b of two numbers that are not negative, as a fraction
\* num/den in lowest terms; 1/0 is Infinity and 0/0 is NaN.
GCD(a, b) ==
    IF a = 0 THEN b
    ELSE IF b = 0 THEN a
    ELSE CHOOSE d \in 1..a : /\ a % d = 0 /\ b % d = 0
                             /\ \A e \in 1..a : (a % e = 0 /\ b % e = 0) => e <= d
Fraction(a, b) ==
    IF a = 0 /\ b = 0 THEN [num |-> 0, den |-> 0]
    ELSE [num |-> a \div GCD(a, b), den |-> b \div GCD(a, b)]
NoExport == [op |-> "none"]
NoMaterialCall == [op |-> "none"]
\* setupRenderer and setupCamera on a container of 1 x 1, device pixel ratio 1.
ToolsIdle ==
    /\ renderer = [width |-> 1, height |-> 1, pixelRatio |-> 1]
    /\ camera = [aspect |-> Fraction(1, 1)]
    /\ devicePixelRatio = 1
    /\ exportCall = NoExport
    /\ material = NoMaterial
    /\ materialCall = NoMaterialCall

\* ------------------------------------------------ inputs of createBondsGeometry
\* Atoms as the loaders hand them over: serial numbers count from 1.
ResidueAtomChoices ==
    [name : {"CA"}, resName : {"ALA", "GLY"}, chainID : {"A"},
     resSeq : {1, 2}, x : {0, 12, 50}, y : {0}, z : {0}, element : {"C"}]
BackboneAtomChoices ==
    [name : {"C", "N", "CA"}, resName : {"ALA"}, chainID : {"A"},
     resSeq : {0, 1, 2, 3}, x : {0, 38, 50}, y : {0}, z : {0}, element : {"C"}]
LineAtomChoices ==
    [name : {"C", "N"}, resName : {"ALA"}, chainID : {"A", "B"},
     resSeq : {1, 2}, x : {0, 12}, y : {0}, z : {0}, element : {"C"}]
AtomLists(choices) ==
    UNION {[1..n -> choices] : n \in 0..MaxAtoms}
NumberAtoms(list) ==
    [i \in DOMAIN list |->
        [idx |-> i, serial |-> i, name |-> list[i].name, resName |-> list[i].resName,
         chainID |-> list[i].chainID, resSeq |-> list[i].resSeq,
         x |-> list[i].x, y |-> list[i].y, z |-> list[i].z, element |-> list[i].element]]

NoCall == [op |-> "none", ids |-> <<>>, onEmptyMap |-> FALSE, repeated |-> FALSE, count |-> 0]
NoGeometry == [kind |-> "none", positions |-> <<>>, colors |-> <<>>, bonds |-> <<>>]

\* A fresh ProteinVisualizer builds the line geometry of the atoms.
BuildBondsGeometry ==
    /\ phase = "geometry"
    /\ LET r == createBondsGeometry(atoms, [map |-> <<>>, log |-> <<>>]) IN
         /\ geometry' = r.geometry
         /\ chainColorMap' = r.map
         /\ colorLog' = r.log
    /\ phase' = "geometryDone"
    /\ UNCHANGED <<appVars, parseVars, exportVars, shaderVars, guiVars, atoms, lastCall>>

GeometryInit(choices) ==
    /\ AppInit
    /\ \E list \in AtomLists(choices) : atoms = NumberAtoms(list)
    /\ geometry = NoGeometry
    /\ chainColorMap = <<>> /\ colorLog = <<>> /\ lastCall = NoCall
    /\ pdbText = <<>> /\ parsed = [status |-> "none"]
    /\ ToolsIdle
    /\ phase = "geometry"

\* A fresh ProteinVisualizer builds the cartoon geometry of the atoms.
BuildCartoonGeometry ==
    /\ phase = "geometry"
    /\ LET r == createCartoonGeometry(atoms, [map |-> <<>>, log |-> <<>>]) IN
         /\ geometry' = r.geometry
         /\ chainColorMap' = r.map
         /\ colorLog' = r.log
    /\ phase' = "cartoonDone"
    /\ UNCHANGED <<appVars, parseVars, exportVars, shaderVars, guiVars, atoms, lastCall>>

\* Atoms for both builders: bonded or far apart, with known, unknown, lower-case
\* and missing element symbols.
BuilderAtomChoices ==
    [name : {"CA"}, resName : {"ALA"}, chainID : {"A"},
     resSeq : {1, 2}, x : {0, 90}, y : {0}, z : {0}, element : {"C", "", "zn"}]
BuilderInit == GeometryInit(BuilderAtomChoices)
BuilderNext == BuildBondsGeometry \/ BuildCartoonGeometry
SpecBuilder == BuilderInit /\ [][BuilderNext]_vars

ResiduesInit == GeometryInit(ResidueAtomChoices)
ResiduesNext == BuildBondsGeometry
SpecResidues == ResiduesInit /\ [][ResiduesNext]_vars

BackboneInit == GeometryInit(BackboneAtomChoices)
BackboneNext == BuildBondsGeometry
SpecBackbone == BackboneInit /\ [][BackboneNext]_vars

LinesInit == GeometryInit(LineAtomChoices)
LinesNext == BuildBondsGeometry
SpecLines == LinesInit /\ [][LinesNext]_vars

\* Atoms of one residue per chain, none of them bonded by the residue or the
\* backbone step when they lie in different chains; serial IDs as the file has
\* them. x = 15 is in grid cell 0, x = -10 in cell -1, x = 20 in cell 1.
GridAtomChoices ==
    [name : {"CA"}, resName : {"ALA"}, chainID : {"A", "B"}, resSeq : {1},
     x : {-10, 15, 20}, y : {0}, z : {0}, element : {"C"}, serial : {1, 2}]
SerialAtoms(list) ==
    [i \in DOMAIN list |-> [NumberAtoms(list)[i] EXCEPT !.serial = list[i].serial]]
GridInit ==
    /\ AppInit
    /\ \E list \in AtomLists(GridAtomChoices) : atoms = SerialAtoms(list)
    /\ geometry = NoGeometry
    /\ chainColorMap = <<>> /\ colorLog = <<>> /\ lastCall = NoCall
    /\ pdbText = <<>> /\ parsed = [status |-> "none"]
    /\ ToolsIdle
    /\ phase = "geometry"
GridNext == BuildBondsGeometry
SpecGrid == GridInit /\ [][GridNext]_vars

PureIdle ==
    /\ atoms = <<>>
    /\ geometry = NoGeometry
    /\ chainColorMap = <<>>
    /\ colorLog = <<>>
    /\ lastCall = NoCall
    /\ pdbText = <<>>
    /\ parsed = [status |-> "none"]
    /\ ToolsIdle

\* ------------------------------------------- one ProteinVisualizer, many calls
\* Chain IDs are the single character of column 22: letters or digits.
ColorChainIds == {"A", "B", "1"}
\* The sequences of distinct chain IDs.
ChainIdLists ==
    {ids \in UNION {[1..n -> ColorChainIds] : n \in 0..Cardinality(ColorChainIds)} :
        \A i, j \in DOMAIN ids : i # j => ids[i] # ids[j]}
SeqRange(s) == {s[i] : i \in DOMAIN s}
\* Proteins for the colouring: one CA atom per chain, the chains in any order.
ColorAtomLists ==
    {[i \in DOMAIN ids |->
        [name |-> "CA", resName |-> "ALA", chainID |-> ids[i], resSeq |-> 1,
         x |-> 38 * i, y |-> 0, z |-> 0, element |-> "C"]] : ids \in ChainIdLists}

CallAssignChainColors(ids) ==
    /\ phase = "colors"
    /\ lastCall.count < MaxCalls
    /\ LET st == assignChainColors([map |-> chainColorMap, log |-> colorLog], ids) IN
         /\ chainColorMap' = st.map
         /\ colorLog' = st.log
    /\ lastCall' = [op |-> "assign", ids |-> ids, onEmptyMap |-> chainColorMap = <<>>,
                    repeated |-> lastCall.op = "assign"
                                 /\ SeqRange(lastCall.ids) = SeqRange(ids),
                    count |-> lastCall.count + 1]
    /\ UNCHANGED <<appVars, geoVars, parseVars, exportVars, shaderVars, guiVars, phase>>

CallGetChainColor(id) ==
    /\ phase = "colors"
    /\ lastCall.count < MaxCalls
    /\ LET st == getChainColorState([map |-> chainColorMap, log |-> colorLog], id) IN
         /\ chainColorMap' = st.map
         /\ colorLog' = st.log
    /\ lastCall' = [op |-> "get", ids |-> <<id>>, onEmptyMap |-> chainColorMap = <<>>,
                    repeated |-> FALSE, count |-> lastCall.count + 1]
    /\ UNCHANGED <<appVars, geoVars, parseVars, exportVars, shaderVars, guiVars, phase>>

\* createBondsGeometry for the atoms of one more protein, on the same visualizer.
CallCreateBondsGeometry(list) ==
    /\ phase = "colors"
    /\ lastCall.count < MaxCalls
    /\ atoms' = NumberAtoms(list)
    /\ LET r == createBondsGeometry(atoms', [map |-> chainColorMap, log |-> colorLog]) IN
         /\ geometry' = r.geometry
         /\ chainColorMap' = r.map
         /\ colorLog' = r.log
    /\ lastCall' = [op |-> "build", ids |-> <<>>, onEmptyMap |-> chainColorMap = <<>>,
                    repeated |-> FALSE, count |-> lastCall.count + 1]
    /\ UNCHANGED <<appVars, parseVars, exportVars, shaderVars, guiVars, phase>>

ColorsInit ==
    /\ AppInit
    /\ PureIdle
    /\ phase = "colors"
ColorsNext ==
    \/ \E ids \in ChainIdLists : CallAssignChainColors(ids)
    \/ \E id \in ColorChainIds : CallGetChainColor(id)
    \/ \E list \in ColorAtomLists : CallCreateBondsGeometry(list)
SpecColors == ColorsInit /\ [][ColorsNext]_vars

\* C8 (as claimed): a chain that gets its colour for the first time gets
\* palette[n mod palette_length], n being the number of chains that had a colour
\* at that moment.
C8_FirstColorByCount ==
    \A k \in DOMAIN colorLog : colorLog[k].color = PaletteAt(colorLog[k].n)

\* C9 (as claimed): geometry built on an empty colour map gives the i-th chain in
\* first-seen order the i-th palette entry.
C9_FirstSeenOrderColors ==
    (lastCall.op = "build" /\ lastCall.onEmptyMap) =>
        LET order == DistinctInOrder([i \in DOMAIN atoms |-> atoms[i].chainID])
        IN \A i \in DOMAIN order :
            /\ Has(chainColorMap, order[i])
            /\ ColorOf(chainColorMap, order[i]) = chainColors[i]

\* C10: a chain that has a colour keeps it through every later call, and an
\* assignChainColors call repeated with the same set of chain IDs leaves the
\* whole mapping as the first call left it.
C10_ColorsKeptAndIdempotent ==
    [][/\ \A i \in DOMAIN chainColorMap :
            i \in DOMAIN chainColorMap' /\ chainColorMap'[i] = chainColorMap[i]
       /\ lastCall'.repeated => chainColorMap' = chainColorMap]_vars
\* Witness of C10: assignChainColors has just been repeated on several chains.
C10_Witness ==
    /\ lastCall.op = "assign" /\ lastCall.repeated
    /\ Len(lastCall.ids) >= 2
    /\ Len(chainColorMap) >= 2

\* ---------------------------------------------------- claims on line geometry
\* The atoms of the input that lie in residue r of chain c, by position in the input.
ResidueIdx(c, r) == {i \in DOMAIN atoms : atoms[i].chainID = c /\ atoms[i].resSeq = r}
\* The number of emitted segments that join input atoms i and j.
JoinCount(i, j) ==
    Cardinality({k \in DOMAIN geometry.bonds :
                    {geometry.bonds[k].a, geometry.bonds[k].b} = {i, j}})
\* The backbone segments between two sets of input atoms.
BackboneBetween(S, T) ==
    {k \in DOMAIN geometry.bonds :
        /\ geometry.bonds[k].step = "backbone"
        /\ \/ geometry.bonds[k].a \in S /\ geometry.bonds[k].b \in T
           \/ geometry.bonds[k].a \in T /\ geometry.bonds[k].b \in S}

\* C3 (as claimed): every two distinct atoms with the same chainID and resSeq and a
\* squared distance of at most 2.0 are joined by exactly one segment of the line
\* geometry, whatever the order of the input.
C3_IntraResiduePairBondedOnce ==
    phase = "geometryDone" =>
        \A i, j \in DOMAIN atoms :
            (/\ i < j
             /\ atoms[i].chainID = atoms[j].chainID
             /\ atoms[i].resSeq = atoms[j].resSeq
             /\ DistSq(atoms[i], atoms[j]) <= 200)
            => JoinCount(i, j) = 1

\* C4 (as claimed): between two residues r and r+1 of one chain the backbone step
\* emits exactly one segment: C of r to N of r+1 when both exist, otherwise a pair
\* of minimal squared distance if that distance is at most 25.0, otherwise none;
\* and it emits none between residues whose numbers differ by more than 1.
C4_BackboneRule ==
    phase = "geometryDone" =>
        \A c \in {atoms[i].chainID : i \in DOMAIN atoms} :
        \A r1, r2 \in {atoms[i].resSeq : i \in DOMAIN atoms} :
            LET cur == ResidueIdx(c, r1)
                nxt == ResidueIdx(c, r2)
                between == BackboneBetween(cur, nxt)
                hasCN == /\ \E i \in cur : atoms[i].name = "C"
                         /\ \E j \in nxt : atoms[j].name = "N"
                dists == {DistSq(atoms[i], atoms[j]) : i \in cur, j \in nxt}
                minD == CHOOSE d \in dists : \A e \in dists : d <= e
            IN (cur # {} /\ nxt # {} /\ r1 < r2) =>
                IF r2 - r1 > 1 THEN between = {}
                ELSE IF hasCN
                THEN /\ Cardinality(between) = 1
                     /\ \A k \in between :
                            /\ geometry.bonds[k].a \in cur /\ atoms[geometry.bonds[k].a].name = "C"
                            /\ geometry.bonds[k].b \in nxt /\ atoms[geometry.bonds[k].b].name = "N"
                ELSE IF minD <= 2500
                THEN /\ Cardinality(between) = 1
                     /\ \A k \in between :
                            DistSq(atoms[geometry.bonds[k].a], atoms[geometry.bonds[k].b]) = minD
                ELSE between = {}

\* The order of the atom names of the inputs as strings compare: "C" < "CA" < "N".
NameRank == ("C" :> 1) @@ ("CA" :> 2) @@ ("N" :> 3)
NamePairBefore(a1, b1, a2, b2) ==
    \/ NameRank[a1] < NameRank[a2]
    \/ (a1 = a2 /\ NameRank[b1] <= NameRank[b2])

\* C21 (as claimed): when the closest-pair rule bonds two consecutive residues
\* and several pairs have the minimal squared distance, the bond joins the pair
\* whose (atom name, atom name) is lexicographically smallest among them.
C21_ClosestPairTieBreak ==
    phase = "geometryDone" =>
        \A c \in {atoms[i].chainID : i \in DOMAIN atoms} :
        \A r \in {atoms[i].resSeq : i \in DOMAIN atoms} :
            LET cur == ResidueIdx(c, r)
                nxt == ResidueIdx(c, r + 1)
                hasCN == /\ \E i \in cur : atoms[i].name = "C"
                         /\ \E j \in nxt : atoms[j].name = "N"
                dists == {DistSq(atoms[i], atoms[j]) : i \in cur, j \in nxt}
            IN (cur # {} /\ nxt # {} /\ ~hasCN) =>
                \A k \in BackboneBetween(cur, nxt) :
                \A i \in cur : \A j \in nxt :
                    (\A e \in dists : DistSq(atoms[i], atoms[j]) <= e)
                    => NamePairBefore(atoms[geometry.bonds[k].a].name,
                                      atoms[geometry.bonds[k].b].name,
                                      atoms[i].name, atoms[j].name)

\* C7: a line geometry built from inferred bonds has 6 position numbers and 6
\* colour numbers per emitted bond, and vertices 2i and 2i+1 are the endpoints of
\* bond i.
C7_LineGeometryShape ==
    (phase = "geometryDone" /\ geometry.kind = "bonds") =>
        /\ Len(geometry.positions) = 6 * Len(geometry.bonds)
        /\ Len(geometry.colors) = Len(geometry.positions)
        /\ \A k \in DOMAIN geometry.bonds :
            LET a1 == atoms[geometry.bonds[k].a]
                a2 == atoms[geometry.bonds[k].b]
            IN SubSeq(geometry.positions, 6 * (k - 1) + 1, 6 * k)
                 = <<a1.x, a1.y, a1.z, a2.x, a2.y, a2.z>>
\* Witness of C7: a geometry whose segments come from the intra-residue and the
\* backbone step together.
C7_Witness ==
    /\ phase = "geometryDone" /\ geometry.kind = "bonds"
    /\ \E k \in DOMAIN geometry.bonds : geometry.bonds[k].step = "intra"
    /\ \E k \in DOMAIN geometry.bonds : geometry.bonds[k].step = "backbone"

\* C11: both geometry builders return, for every atom list, a geometry whose
\* position buffer is not empty and whose colour buffer has the same length;
\* from zero atoms the geometry is the fallback, every vertex of it red.
C11_BuilderNeverEmpty ==
    phase \in {"geometryDone", "cartoonDone"} =>
        /\ geometry.kind \in {"bonds", "spheres", "fallback"}
        /\ Len(geometry.positions) > 0
        /\ Len(geometry.positions) % 3 = 0
        /\ Len(geometry.colors) = Len(geometry.positions)
        /\ Len(atoms) = 0 =>
             /\ geometry.kind = "fallback"
             /\ \A i \in DOMAIN geometry.colors :
                  geometry.colors[i] = IF i % 3 = 1 THEN 255 ELSE 0
\* Witness of C11: atoms among which no bond can be formed were given to the
\* line builder.
C11_Witness ==
    /\ phase = "geometryDone"
    /\ Len(atoms) >= 2
    /\ geometry.bonds = <<>>
    /\ geometry.kind = "fallback"

\* ------------------------------------------------------ Exporter.exportPNG
\* What the try-block does before anything in it can throw: the camera and the
\* renderer are set to the target dimensions.
ExportPrepare(st, width, height) ==
    [st EXCEPT !.camera = [aspect |-> Fraction(width, height)],
               !.renderer = [width |-> width, height |-> height, pixelRatio |-> 1],
               !.log = @ \o <<"setAspect", "updateProjectionMatrix", "setPixelRatio",
                              "setSize">>]

\* render, toDataURL and the download; fault names the step that throws, if any.
\* Without FileSaver the image is opened in a new window, which may be refused.
ExportCapture(st, fault) ==
    IF fault = "render"
    THEN [st EXCEPT !.outcome = "threw", !.log = @ \o <<"render">>]
    ELSE IF fault = "toDataURL"
    THEN [st EXCEPT !.outcome = "threw", !.log = @ \o <<"render", "toDataURL">>]
    ELSE IF fault = "saveAs"
    THEN [st EXCEPT !.outcome = "threw", !.log = @ \o <<"render", "toDataURL", "saveAs">>]
    ELSE IF fault = "noSaveAsBlocked"
    THEN [st EXCEPT !.outcome = "threw", !.log = @ \o <<"render", "toDataURL", "open">>]
    ELSE IF fault = "noSaveAs"
    THEN [st EXCEPT !.outcome = "returned", !.log = @ \o <<"render", "toDataURL", "open">>]
    ELSE [st EXCEPT !.outcome = "returned", !.log = @ \o <<"render", "toDataURL", "saveAs">>]

\* The finally-block: the pixel ratio is set to window.devicePixelRatio, the
\* size and the aspect to the values stored before the try.
ExportRestore(st, originalSize, originalAspect, dpr) ==
    [st EXCEPT !.renderer = [width |-> originalSize.width, height |-> originalSize.height,
                             pixelRatio |-> dpr],
               !.camera = [aspect |-> originalAspect],
               !.log = @ \o <<"setPixelRatio", "setSize", "setAspect",
                              "updateProjectionMatrix">>]

\* ExportValidation that lets a width or height of 0 pass.
ExportValidationNegativeOnly(call) ==
    IF call.missing # "none" THEN "missing"
    ELSE IF call.width < 0 \/ call.height < 0 THEN "dimensions"
    ELSE "none"

\* The input validation of exportPNG: which error it throws, or "none".
ExportValidation(call) ==
    IF call.missing # "none" THEN "missing"
    ELSE IF call.width <= 0 \/ call.height <= 0 THEN "dimensions"
    ELSE "none"

\* exportPNG on renderer r and camera c: the renderer and camera afterwards,
\* whether it returned or threw, and the renderer/camera operations it made.
exportPNG(r, c, dpr, call) ==
    IF ExportValidation(call) # "none"
    THEN [renderer |-> r, camera |-> c, outcome |-> "threw", log |-> <<>>]
    ELSE ExportRestore(
             ExportCapture(
                 ExportPrepare([renderer |-> r, camera |-> c, outcome |-> "running",
                                log |-> <<"getSize", "getAspect">>],
                               call.width, call.height),
                 call.fault),
             [width |-> r.width, height |-> r.height], c.aspect, dpr)

ExportFaults == {"none", "render", "toDataURL", "saveAs", "noSaveAs", "noSaveAsBlocked"}
\* The calls; a fault is chosen only for a call that gets past the validation.
ExportCalls ==
    {call \in [missing : {"none", "renderer", "scene", "camera"},
               width : -1..MaxSize, height : -1..MaxSize, fault : ExportFaults] :
        ExportValidation(call) # "none" => call.fault = "none"}

CallExportPNG(call) ==
    /\ phase = "export"
    /\ LET r == exportPNG(renderer, camera, devicePixelRatio, call) IN
         /\ renderer' = r.renderer
         /\ camera' = r.camera
         /\ exportCall' = [op |-> "exportPNG", call |-> call, outcome |-> r.outcome,
                           log |-> r.log,
                           before |-> [renderer |-> renderer, camera |-> camera]]
    /\ UNCHANGED <<appVars, geoVars, colVars, parseVars, shaderVars, guiVars, devicePixelRatio, phase>>

\* App.onWindowResize: the container now measures width x height.
onWindowResize(width, height) ==
    /\ phase = "export"
    /\ camera' = [aspect |-> Fraction(width, height)]
    /\ renderer' = [renderer EXCEPT !.width = width, !.height = height]
    /\ exportCall' = NoExport
    /\ UNCHANGED <<appVars, geoVars, colVars, parseVars, shaderVars, guiVars, devicePixelRatio, phase>>

\* The browser changes window.devicePixelRatio (zoom, another screen).
DevicePixelRatioChanged(ratio) ==
    /\ phase = "export"
    /\ ratio # devicePixelRatio
    /\ devicePixelRatio' = ratio
    /\ exportCall' = NoExport
    /\ UNCHANGED <<appVars, geoVars, colVars, parseVars, shaderVars, guiVars, renderer, camera, phase>>

ExportInit ==
    /\ AppInit
    /\ atoms = <<>> /\ geometry = NoGeometry
    /\ chainColorMap = <<>> /\ colorLog = <<>> /\ lastCall = NoCall
    /\ pdbText = <<>> /\ parsed = [status |-> "none"]
    /\ ToolsIdle
    /\ phase = "export"
ExportNext ==
    \/ \E call \in ExportCalls : CallExportPNG(call)
    \/ \E width, height \in 1..MaxSize : onWindowResize(width, height)
    \/ \E ratio \in 1..MaxSize : DevicePixelRatioChanged(ratio)
SpecExport == ExportInit /\ [][ExportNext]_vars

\* -------------------------------------------------------- claims on exportPNG
\* C13 (as claimed): after exportPNG has returned or thrown, the renderer's size
\* and pixel ratio and the camera's aspect are what they were before the call.
C13_ExportRestoresState ==
    exportCall.op = "exportPNG" =>
        /\ renderer = exportCall.before.renderer
        /\ camera = exportCall.before.camera

\* C14: exportPNG called with a width or height of at most 0, or without a
\* renderer, scene or camera, throws before it has read or changed any renderer
\* or camera state.
C14_InvalidExportThrowsFirst ==
    (/\ exportCall.op = "exportPNG"
     /\ \/ exportCall.call.width <= 0
        \/ exportCall.call.height <= 0
        \/ exportCall.call.missing # "none")
    => /\ exportCall.outcome = "threw"
       /\ exportCall.log = <<>>
       /\ renderer = exportCall.before.renderer
       /\ camera = exportCall.before.camera
\* Witness of C14: a call with width 0 on a renderer whose pixel ratio is not the
\* window's.
C14_Witness ==
    /\ exportCall.op = "exportPNG"
    /\ exportCall.call.width = 0 /\ exportCall.call.height > 0
    /\ exportCall.call.missing = "none"
    /\ exportCall.outcome = "threw"
    /\ renderer.pixelRatio # devicePixelRatio

\* ------------------------------------------- claims on the spatial-grid step
\* generateNearestNeighborBonds ran: atoms were given and the residue and
\* backbone steps emitted nothing.
GridStepRan ==
    /\ phase = "geometryDone"
    /\ Len(atoms) > 0
    /\ \A k \in DOMAIN geometry.bonds : geometry.bonds[k].step = "grid"
\* The unordered pairs of distinct atoms within the covalent threshold.
NearPairs ==
    {p \in (DOMAIN atoms) \X (DOMAIN atoms) :
        p[1] < p[2] /\ DistSq(atoms[p[1]], atoms[p[2]]) <= BOND_DISTANCE_SQ_THRESHOLD}

\* C19 (as claimed): when the spatial-grid step runs, its segments are those of
\* an all-pairs scan deduplicated by the (min, max) serial key: every segment
\* joins two distinct atoms within the threshold, no two segments have the same
\* key, and the keys of the segments are the keys of the pairs within the
\* threshold.
C19_GridEqualsBruteForce ==
    GridStepRan =>
        /\ \A k \in DOMAIN geometry.bonds :
              /\ geometry.bonds[k].a # geometry.bonds[k].b
              /\ DistSq(atoms[geometry.bonds[k].a], atoms[geometry.bonds[k].b])
                    <= BOND_DISTANCE_SQ_THRESHOLD
        /\ \A k, l \in DOMAIN geometry.bonds :
              k # l => BondKey(atoms[geometry.bonds[k].a], atoms[geometry.bonds[k].b])
                       # BondKey(atoms[geometry.bonds[l].a], atoms[geometry.bonds[l].b])
        /\ {BondKey(atoms[geometry.bonds[k].a], atoms[geometry.bonds[k].b]) :
                k \in DOMAIN geometry.bonds}
             = {BondKey(atoms[p[1]], atoms[p[2]]) : p \in NearPairs}

\* C20 (as claimed): when atoms exist, two of them share a chain, and the
\* residue, backbone and spatial-grid steps emitted nothing, the line geometry
\* is a sequential chain: it has segments, each joining two different atoms of
\* one chain, and every atom that shares its chain with another is on a segment;
\* it is not the placeholder.
C20_SequentialChainLastResort ==
    (/\ phase = "geometryDone"
     /\ Len(atoms) > 0
     /\ \E i, j \in DOMAIN atoms :
            i # j /\ ChainIdOrDefault(atoms[i]) = ChainIdOrDefault(atoms[j])
     /\ \A k \in DOMAIN geometry.bonds :
            geometry.bonds[k].step \notin {"intra", "backbone", "grid"})
    => /\ geometry.kind # "fallback"
       /\ Len(geometry.positions) > 0
       /\ Len(geometry.bonds) >= 1
       /\ \A k \in DOMAIN geometry.bonds :
             /\ geometry.bonds[k].a # geometry.bonds[k].b
             /\ ChainIdOrDefault(atoms[geometry.bonds[k].a])
                  = ChainIdOrDefault(atoms[geometry.bonds[k].b])
       /\ \A i, j \in DOMAIN atoms :
             (i # j /\ ChainIdOrDefault(atoms[i]) = ChainIdOrDefault(atoms[j]))
             => \E k \in DOMAIN geometry.bonds : i \in {geometry.bonds[k].a, geometry.bonds[k].b}

\* ------------------------------------------------ ShaderManager.createMaterial
\* Shader code is where it came from and for which shader: the files
\* shaders/{vertex,fragment}/<name>_{vert,frag}.glsl, or the GLSL text built into
\* getFallbackShaderCode.
FileCode(shaderName) == [origin |-> "file", name |-> shaderName]
BuiltinCode(name) == [origin |-> "builtin", name |-> name]

\* getFallbackShaderCode as it would be with a single built-in shader.
getFallbackShaderCodeBaseOnly(shaderName) == BuiltinCode("base")

\* getFallbackShaderCode: switch (shaderName), 'base' and default share a branch.
getFallbackShaderCode(shaderName) ==
    CASE shaderName = "toon" -> BuiltinCode("toon")
      [] shaderName = "metallic" -> BuiltinCode("metallic")
      [] OTHER -> BuiltinCode("base")

\* What the two fetches and the two text() calls of loadShaderCode can do.
FetchOutcomes == {"ok", "networkError", "vertNotOk", "fragNotOk", "textRejects"}

\* loadShaderCode: the cached code if there is one; else the fetched code, which
\* is cached; else (a response that is not ok, or anything thrown in the
\* try-block) the built-in code, which is not cached.
loadShaderCode(cache, shaderName, fetch) ==
    IF shaderName \in cache
    THEN [code |-> FileCode(shaderName), cache |-> cache, fetched |-> FALSE]
    ELSE IF fetch = "ok"
         THEN [code |-> FileCode(shaderName), cache |-> cache \cup {shaderName},
               fetched |-> TRUE]
         ELSE [code |-> getFallbackShaderCode(shaderName), cache |-> cache,
               fetched |-> TRUE]

\* userUniforms.opacity, in tenths; Undefined when the caller gives none.
Undefined == -1
Opacities == {Undefined, 5, 10}

\* A value held by a uniform or handed over by a caller: a colour (24-bit), a
\* number (in thousandths), a boolean (0 or 1), a vector or texture of the
\* library (numbered), or undefined.
Val(t, v) == [t |-> t, v |-> v]
NoValue == Val("undefined", 0)
DefaultAmbientColor == 4210752
\* The light values App.visualizeProtein adds to the shader parameters: the
\* directional light's position and colour, the ambient colour times 0.5.
AppAmbientColor == 8421504
UniformNames ==
    {"uLightDirection", "uLightColor", "uAmbientLightColor", "uBaseColor",
     "uUseSolidColor", "uOutlineColor", "uOutlineThickness", "uNumSteps",
     "uRoughness", "uMetallic", "uEnvMap"}

\* standardUniforms: lights tells whether userUniforms holds lightDirection,
\* lightColor and ambientLightColor (x || default).
standardUniforms(lights) ==
    [n \in UniformNames |->
        CASE n = "uLightDirection" -> Val("vector", 1)
          [] n = "uLightColor" -> Val("color", White)
          [] n = "uAmbientLightColor" ->
                Val("color", IF lights THEN AppAmbientColor ELSE DefaultAmbientColor)
          [] n = "uBaseColor" -> Val("color", White)
          [] n = "uUseSolidColor" -> Val("boolean", 1)
          [] n = "uOutlineColor" -> Val("color", Black)
          [] n = "uOutlineThickness" -> Val("number", 20)
          [] n = "uNumSteps" -> Val("number", 4000)
          [] n = "uRoughness" -> Val("number", 300)
          [] n = "uMetallic" -> Val("number", 800)
          [] OTHER -> Val("texture", 1)]

\* An entry of userUniforms is the bare value ("raw", as Controls hands it
\* over), a uniform object { value: v } ("wrapped"), or a uniform object whose
\* value says isColor and has no clone method ("colorLike").
\* cloneUniforms copies the enumerable properties of the entry: a bare number or
\* boolean has none and a bare string has its characters, so the copy has no
\* value property; property.clone() of a colorLike value throws.
CloneThrows(entries) == \E n \in DOMAIN entries : entries[n].form = "colorLike"
CloneUniform(entry) == IF entry.form = "wrapped" THEN entry.val ELSE NoValue

\* THREE.UniformsUtils.merge([standardUniforms, userUniforms]): the later
\* object's uniforms replace those of the same name.
MergeUniforms(standard, entries) ==
    [n \in UniformNames |->
        IF n \in DOMAIN entries THEN CloneUniform(entries[n]) ELSE standard[n]]

\* new THREE.Color(value): a number or a colour string is that colour, anything
\* else leaves the new colour white.
NewColor(value) ==
    IF value.t \in {"color", "number"} THEN Val("color", value.v) ELSE Val("color", White)
\* "Ensure specific color uniforms are THREE.Color instances". A colour handed
\* over as a string is no THREE.Color; it is written Val("string", rgb).
CoerceColor(value) ==
    IF value.t = "color" THEN value
    ELSE IF value.t = "string" THEN Val("color", value.v)
    ELSE NewColor(value)
CoerceUniforms(uniforms) ==
    [n \in UniformNames |->
        IF n \in {"uBaseColor", "uOutlineColor"} THEN CoerceColor(uniforms[n])
        ELSE uniforms[n]]

\* finalUniforms of createMaterial for a userUniforms object.
FinalUniforms(userUniforms) ==
    CoerceUniforms(MergeUniforms(standardUniforms(userUniforms.lights),
                                 userUniforms.entries))

\* The magenta material of createMaterial's catch-block.
FallbackMaterialColor == 16711935
FallbackMaterial(isMesh) ==
    [kind |-> IF isMesh THEN "MeshBasicMaterial" ELSE "LineBasicMaterial",
     color |-> FallbackMaterialColor, vertexColors |-> TRUE]
\* new THREE.ShaderMaterial({...}) of createMaterial's try-block.
NewShaderMaterial(code, isMesh, opacity, uniforms) ==
    [kind |-> "ShaderMaterial", code |-> code,
     side |-> IF isMesh THEN "FrontSide" ELSE "DoubleSide",
     transparent |-> (opacity # Undefined /\ opacity < 10),
     opacity |-> IF opacity # Undefined THEN opacity ELSE 10,
     vertexColors |-> TRUE,
     uniforms |-> uniforms]
\* createMaterial's try and catch: the try-block returns the shader material
\* (needsBasic is the constant false), the catch-block the magenta one.
MaterialOf(code, isMesh, opacity, constructed, uniforms) ==
    IF constructed THEN NewShaderMaterial(code, isMesh, opacity, uniforms)
    ELSE FallbackMaterial(isMesh)

\* createMaterial after its await. Reading userUniforms.lightDirection of null,
\* the merge and the colour coercion stand before the try-block: what they
\* throw rejects the promise. [outcome, material].
createMaterial(code, userUniforms, isMesh, constructed) ==
    IF userUniforms.kind = "null" THEN [outcome |-> "rejected", material |-> NoMaterial]
    ELSE IF CloneThrows(userUniforms.entries)
    THEN [outcome |-> "rejected", material |-> NoMaterial]
    ELSE [outcome |-> "resolved",
          material |-> MaterialOf(code, isMesh, userUniforms.opacity, constructed,
                                  FinalUniforms(userUniforms))]

\* ------------------------------------------------- Controls: shader parameters
\* The uniforms getCurrentShaderParams names for the active shader.
ShaderParamNames(activeShader) ==
    CASE activeShader = "base" -> {"uBaseColor", "uUseSolidColor"}
      [] activeShader = "toon" ->
            {"uOutlineColor", "uOutlineThickness", "uNumSteps", "uBaseColor",
             "uUseSolidColor"}
      [] activeShader = "metallic" ->
            {"uBaseColor", "uRoughness", "uMetallic", "uUseSolidColor"}
      [] OTHER -> {"uUseSolidColor"}

\* paramsToUpdate.uBaseColor after the switch and the final if.
ParamsBaseColor(ps) ==
    IF ps.coloring = "solid" THEN ps.solidColor
    ELSE CASE ps.shader = "base" -> ps.base_baseColor
           [] ps.shader = "toon" -> White
           [] OTHER -> ps.metallic_baseColor

\* Controls.getCurrentShaderParams: the bare values by uniform name.
getCurrentShaderParams(ps) ==
    [n \in ShaderParamNames(ps.shader) |->
        CASE n = "uBaseColor" -> Val("string", ParamsBaseColor(ps))
          [] n = "uUseSolidColor" ->
                Val("boolean", IF ps.coloring = "solid" THEN 1 ELSE 0)
          [] n = "uOutlineColor" -> Val("string", ps.toon_outlineColor)
          [] n = "uOutlineThickness" -> Val("number", ps.toon_outlineThickness)
          [] n = "uNumSteps" -> Val("number", ps.toon_numSteps)
          [] n = "uRoughness" -> Val("number", ps.metallic_roughness)
          [] OTHER -> Val("number", ps.metallic_metallic)]

\* The shaderParams App.visualizeProtein hands to createRepresentation: the
\* bare values of the controls and the three light values.
AppShaderParams(ps) ==
    [kind |-> "object", lights |-> TRUE, opacity |-> Undefined,
     entries |-> [n \in ShaderParamNames(ps.shader) |->
                     [form |-> "raw", val |-> getCurrentShaderParams(ps)[n]]]]

\* ------------------------------------------------ createMaterial and its callers
\* The names the controls offer, and one that has neither files nor a built-in.
MaterialShaderNames == ShaderNames \cup {"glow"}

\* The settings of the controls used as callers' parameters: each shader once,
\* toon with solid colouring.
ParamChoices ==
    {[DefaultParams EXCEPT !.shader = s,
                           !.coloring = IF s = "toon" THEN "solid" ELSE "chain"] :
        s \in ShaderNames}
\* userUniforms: none given ({}), with an opacity, the controller's shader
\* parameters, uniform objects { value: v }, null, and a uniform object whose
\* value is colour-like without being a THREE.Color.
NoEntries == [n \in {} |-> NoValue]
UserUniformChoices ==
    {[kind |-> "object", lights |-> FALSE, opacity |-> o, entries |-> NoEntries] :
        o \in Opacities}
    \cup {AppShaderParams(p) : p \in ParamChoices}
    \cup {[kind |-> "object", lights |-> FALSE, opacity |-> Undefined,
           entries |-> [n \in {"uNumSteps", "uBaseColor"} |->
                           [form |-> "wrapped",
                            val |-> IF n = "uNumSteps" THEN Val("number", 5000)
                                    ELSE Val("string", Green)]]]}
    \cup {[kind |-> "null"]}
    \cup {[kind |-> "object", lights |-> FALSE, opacity |-> Undefined,
           entries |-> [n \in {"uBaseColor"} |-> [form |-> "colorLike", val |-> NoValue]]]}

\* await shaderManager.createMaterial(shaderName, userUniforms, isMesh). The
\* continuation after the await reads only its own locals, and loadShaderCode
\* writes only the cache entry of its own name, so the call is one step.
\* constructed = FALSE is the ShaderMaterial constructor throwing.
CallCreateMaterial(shaderName, fetch, isMesh, userUniforms, constructed) ==
    /\ phase = "shader"
    /\ LET loaded == loadShaderCode(shaderCache, shaderName, fetch)
           made == createMaterial(loaded.code, userUniforms, isMesh, constructed)
       IN
         /\ shaderCache' = loaded.cache
         /\ material' = made.material
         /\ materialCall' = [op |-> "createMaterial", shaderName |-> shaderName,
                             fetched |-> loaded.fetched, fetch |-> fetch,
                             isMesh |-> isMesh, constructed |-> constructed,
                             userUniforms |-> userUniforms,
                             outcome |-> made.outcome,
                             cacheBefore |-> shaderCache]
    /\ UNCHANGED <<proteinData, proteinObject, scene, disposed, added,
                   currentRepresentation, currentShaderName, loadState, loadOrder,
                   vizRuns, objInfo, nextObject, loadingShown>>
    /\ UNCHANGED <<geoVars, colVars, parseVars, exportVars, guiVars, phase>>

ShaderInit ==
    /\ AppInit
    /\ PureIdle
    /\ phase = "shader"
ShaderNext ==
    \E shaderName \in MaterialShaderNames, fetch \in FetchOutcomes, isMesh \in BOOLEAN,
       userUniforms \in UserUniformChoices, constructed \in BOOLEAN :
        CallCreateMaterial(shaderName, fetch, isMesh, userUniforms, constructed)
SpecShader == ShaderInit /\ [][ShaderNext]_vars

\* The caller handed createMaterial an object whose uniforms can be cloned.
WellFormedUniforms(userUniforms) ==
    userUniforms.kind = "object" /\ ~CloneThrows(userUniforms.entries)

\* C12: when createMaterial, called with a well-formed userUniforms object, had
\* to fetch the shader's files and the fetch failed (network error, a response
\* that is not ok, or a body that cannot be read), the call resolves to a
\* material, the failure is not cached, and - the material constructor not
\* throwing - for base, toon and metallic the material is a shader material
\* built from the built-in code of that same shader.
C12_FetchFailureFallsBack ==
    (/\ materialCall.op = "createMaterial"
     /\ WellFormedUniforms(materialCall.userUniforms)
     /\ materialCall.fetched
     /\ materialCall.fetch # "ok")
    => /\ materialCall.outcome = "resolved"
       /\ material.kind \in {"ShaderMaterial", "MeshBasicMaterial", "LineBasicMaterial"}
       /\ shaderCache = materialCall.cacheBefore
       /\ (materialCall.constructed /\ materialCall.shaderName \in ShaderNames)
            => /\ material.kind = "ShaderMaterial"
               /\ material.code = BuiltinCode(materialCall.shaderName)
C12_Witness ==
    /\ materialCall.op = "createMaterial"
    /\ materialCall.shaderName = "toon"
    /\ WellFormedUniforms(materialCall.userUniforms)
    /\ materialCall.fetched
    /\ materialCall.fetch = "vertNotOk"
    /\ material.kind = "ShaderMaterial"
    /\ material.code = BuiltinCode("toon")
    /\ "base" \in shaderCache

\* C23 (as claimed): createMaterial never propagates a failure. Whatever the
\* shader name, the userUniforms object and the geometry kind, the call
\* resolves to a material, and when something threw while the material was
\* built that material is the diagnostic one.
C23_NeverPropagates ==
    materialCall.op = "createMaterial" =>
        /\ materialCall.outcome = "resolved"
        /\ material.kind \in {"ShaderMaterial", "MeshBasicMaterial", "LineBasicMaterial"}
        /\ (~materialCall.constructed \/ ~WellFormedUniforms(materialCall.userUniforms))
             => material.kind \in {"MeshBasicMaterial", "LineBasicMaterial"}

\* The value the caller supplied for a uniform, as the uniform should carry it:
\* a colour string as that colour.
SuppliedValue(entry) ==
    IF entry.val.t = "string" THEN Val("color", entry.val.v) ELSE entry.val

\* C24 (as claimed): every uniform the caller supplies carries the caller's
\* value in the created shader material, every other uniform its default.
C24_OverridesWin ==
    (/\ materialCall.op = "createMaterial"
     /\ materialCall.outcome = "resolved"
     /\ material.kind = "ShaderMaterial")
    => \A n \in UniformNames :
         material.uniforms[n] =
            IF n \in DOMAIN materialCall.userUniforms.entries
            THEN SuppliedValue(materialCall.userUniforms.entries[n])
            ELSE standardUniforms(materialCall.userUniforms.lights)[n]

\* --------------------------------------- Controls, the App and the colour mode
\* ProteinVisualizer.setColorMode on the object's material: the vertex-colour
\* switch, then the two uniforms if the material has uniforms, else (solid) the
\* material's own colour.
setColorMode(mat, mode, solidColor) ==
    IF mat.kind = "none" THEN mat
    ELSE IF mat.kind = "ShaderMaterial"
    THEN [mat EXCEPT
            !.vertexColors = (mode = "chain"),
            !.uniforms = [@ EXCEPT
                !["uUseSolidColor"] = Val("boolean", IF mode = "chain" THEN 0 ELSE 1),
                !["uBaseColor"] = Val("color", IF mode = "chain" THEN White
                                               ELSE solidColor)]]
    ELSE [mat EXCEPT !.vertexColors = (mode = "chain"),
                     !.color = IF mode = "chain" THEN @ ELSE solidColor]

\* One key of App.updateShaderUniforms: a colour uniform is set from a colour,
\* string or number, a vector uniform copies a vector only, any other uniform
\* takes the update as it is.
UpdateUniform(current, update) ==
    IF current.t = "color"
    THEN IF update.t \in {"color", "string", "number"} THEN Val("color", update.v)
         ELSE current
    ELSE IF current.t = "vector"
    THEN IF update.t = "vector" THEN update ELSE current
    ELSE update
\* App.updateShaderUniforms on the object's material.
updateShaderUniforms(mat, uniformUpdates) ==
    IF mat.kind # "ShaderMaterial" THEN mat
    ELSE [mat EXCEPT !.uniforms =
            [n \in UniformNames |->
                IF n \in DOMAIN uniformUpdates
                THEN UpdateUniform(mat.uniforms[n], uniformUpdates[n])
                ELSE mat.uniforms[n]]]

\* The material of the object visualizeProtein installs: createRepresentation's
\* shader material (a mesh for cartoon, line segments for lines) over the
\* final uniforms of the shaderParams the run captured, then the initial
\* colouring in the mode and colour the App holds at that moment.
CreatedMaterial(code, rep, uniforms, mode, solidColor) ==
    setColorMode(MaterialOf(code, rep = "cartoon", Undefined, TRUE, uniforms),
                 mode, solidColor)

\* visualizeProtein's effect on the material of App.proteinObject; the rest of
\* it is VisualizeProtein. shaderParams is a fresh object that nothing changes
\* after the call, so the uniforms createMaterial merges from it after its
\* await are fixed here: the overrides are bare values, none of them throws.
VisualizeMaterial(data, hasAtoms, rep, shader, ps) ==
    IF data = NoData
    THEN UNCHANGED <<objUniforms, objectMaterial>>
    ELSE IF ~hasAtoms
    THEN /\ objectMaterial' = NoMaterial
         /\ UNCHANGED objUniforms
    ELSE /\ objUniforms' = [objUniforms EXCEPT
                                ![nextObject] = FinalUniforms(AppShaderParams(ps))]
         /\ objectMaterial' =
                IF shader \in shaderCache
                THEN CreatedMaterial(FileCode(shader), rep,
                                     FinalUniforms(AppShaderParams(ps)),
                                     currentColorMode, currentSolidColor)
                ELSE NoMaterial

\* App.setColorMode: returns before storing the mode when there is no object.
AppSetColorMode(mode) ==
    IF proteinObject = NoObject
    THEN UNCHANGED <<currentColorMode, objectMaterial>>
    ELSE /\ currentColorMode' = mode
         /\ objectMaterial' = setColorMode(objectMaterial, mode, currentSolidColor)

\* The values the GUI offers for the parameters the model varies.
SolidColors == {Green, Silver}
BaseColors == {White, Green}
NumSteps == {4000, 5000}
Roughnesses == {300, 500}

\* The loader's promise resolves: handlePDBLoaded, then the finally-block.
GuiLoadResolved(l, outcome) ==
    /\ phase = "gui"
    /\ loadState[l] = "pending"
    /\ outcome \in {"ok", "empty"}
    /\ loadState' = [loadState EXCEPT ![l] = outcome]
    /\ proteinData' = l
    /\ VisualizeProtein(l, outcome = "ok", currentRepresentation, currentShaderName, TRUE)
    /\ VisualizeMaterial(l, outcome = "ok", currentRepresentation, currentShaderName, params)
    /\ UNCHANGED <<currentRepresentation, currentShaderName, loadOrder, shaderCache,
                   params, currentColorMode, currentSolidColor, guiEvents>>
    /\ UNCHANGED <<geoVars, colVars, parseVars, exportVars, shaderVars, phase>>

\* A suspended visualizeProtein resumes: the object is stored, coloured in the
\* mode the App holds now, and added to the scene.
GuiVisualizeResumed(o, fetched) ==
    /\ phase = "gui"
    /\ o \in vizRuns
    /\ vizRuns' = vizRuns \ {o}
    /\ proteinObject' = o
    /\ scene' = scene \cup {o}
    /\ added' = added \cup {o}
    /\ shaderCache' = IF fetched THEN shaderCache \cup {objInfo[o].shader} ELSE shaderCache
    /\ loadingShown' = FALSE
    /\ objectMaterial' =
          CreatedMaterial(IF fetched THEN FileCode(objInfo[o].shader)
                          ELSE getFallbackShaderCode(objInfo[o].shader),
                          objInfo[o].rep, objUniforms[o], currentColorMode,
                          currentSolidColor)
    /\ UNCHANGED <<proteinData, disposed, currentRepresentation, currentShaderName,
                   loadState, loadOrder, objInfo, nextObject>>
    /\ UNCHANGED <<params, currentColorMode, currentSolidColor, objUniforms, guiEvents>>
    /\ UNCHANGED <<geoVars, colVars, parseVars, exportVars, shaderVars, phase>>

\* The representation control changes: App.setRepresentation, then
\* updateShaderParamVisibility, which ends in handleColoringChange(coloring).
\* When setRepresentation re-visualizes the object is gone while that runs, so
\* the App.setColorMode call returns at once; it acts only when
\* setRepresentation returned early.
GuiRepresentationChange(type) ==
    /\ phase = "gui"
    /\ guiEvents < MaxGuiEvents
    /\ guiEvents' = guiEvents + 1
    /\ type # params.representation
    /\ params' = [params EXCEPT !.representation = type]
    /\ IF type = currentRepresentation
       THEN /\ AppSetColorMode(params.coloring)
            /\ UNCHANGED <<currentRepresentation, proteinObject, scene, disposed, added,
                           vizRuns, objInfo, nextObject, loadingShown, objUniforms>>
       ELSE /\ currentRepresentation' = type
            /\ VisualizeProtein(proteinData, DataHasAtoms(proteinData), type,
                                currentShaderName, FALSE)
            /\ VisualizeMaterial(proteinData, DataHasAtoms(proteinData), type,
                                 currentShaderName, params')
            /\ UNCHANGED currentColorMode
    /\ UNCHANGED <<proteinData, currentShaderName, loadState, loadOrder, shaderCache,
                   currentSolidColor>>
    /\ UNCHANGED <<geoVars, colVars, parseVars, exportVars, shaderVars, phase>>

\* The shader control changes: App.setActiveShader, then
\* updateShaderParamVisibility as above. params.shader and App.currentShaderName
\* start equal and change together, so setActiveShader never returns early.
GuiShaderChange(shaderName) ==
    /\ phase = "gui"
    /\ guiEvents < MaxGuiEvents
    /\ guiEvents' = guiEvents + 1
    /\ shaderName # params.shader
    /\ params' = [params EXCEPT !.shader = shaderName]
    /\ currentShaderName' = shaderName
    /\ VisualizeProtein(proteinData, DataHasAtoms(proteinData), currentRepresentation,
                        shaderName, FALSE)
    /\ VisualizeMaterial(proteinData, DataHasAtoms(proteinData), currentRepresentation,
                         shaderName, params')
    /\ UNCHANGED <<proteinData, currentRepresentation, loadState, loadOrder, shaderCache,
                   currentColorMode, currentSolidColor>>
    /\ UNCHANGED <<geoVars, colVars, parseVars, exportVars, shaderVars, phase>>

\* The colouring control changes: handleColoringChange -> App.setColorMode.
GuiColoringChange(mode) ==
    /\ phase = "gui"
    /\ guiEvents < MaxGuiEvents
    /\ guiEvents' = guiEvents + 1
    /\ mode # params.coloring
    /\ params' = [params EXCEPT !.coloring = mode]
    /\ AppSetColorMode(mode)
    /\ UNCHANGED <<appVars, currentSolidColor, objUniforms>>
    /\ UNCHANGED <<geoVars, colVars, parseVars, exportVars, shaderVars, phase>>

\* The solid-colour picker changes: App.setSolidColor.
GuiSolidColorChange(color) ==
    /\ phase = "gui"
    /\ guiEvents < MaxGuiEvents
    /\ guiEvents' = guiEvents + 1
    /\ color # params.solidColor
    /\ params' = [params EXCEPT !.solidColor = color]
    /\ currentSolidColor' = color
    /\ objectMaterial' =
          IF currentColorMode = "solid" /\ proteinObject # NoObject
          THEN setColorMode(objectMaterial, "solid", color)
          ELSE objectMaterial
    /\ UNCHANGED <<appVars, currentColorMode, objUniforms>>
    /\ UNCHANGED <<geoVars, colVars, parseVars, exportVars, shaderVars, phase>>

\* A control of the active shader's parameter folder changes:
\* updateShaderParams(prefix) -> App.updateShaderUniforms(getCurrentShaderParams()).
\* Only the active shader's folder is displayed.
ParamsAfterChange(prefix, baseColor, numSteps, roughness) ==
    CASE prefix = "base" -> [params EXCEPT !.base_baseColor = baseColor]
      [] prefix = "toon" -> [params EXCEPT !.toon_numSteps = numSteps]
      [] OTHER -> [params EXCEPT !.metallic_roughness = roughness]
GuiShaderParamChange(prefix, baseColor, numSteps, roughness) ==
    /\ phase = "gui"
    /\ guiEvents < MaxGuiEvents
    /\ guiEvents' = guiEvents + 1
    /\ prefix = params.shader
    /\ params' = ParamsAfterChange(prefix, baseColor, numSteps, roughness)
    /\ params' # params
    /\ objectMaterial' =
          IF proteinObject = NoObject THEN objectMaterial
          ELSE updateShaderUniforms(objectMaterial, getCurrentShaderParams(params'))
    /\ UNCHANGED <<appVars, currentColorMode, currentSolidColor, objUniforms>>
    /\ UNCHANGED <<geoVars, colVars, parseVars, exportVars, shaderVars, phase>>

GuiInit ==
    /\ AppInit
    /\ PureIdle
    /\ phase = "gui"
GuiNext ==
    \/ LoadPDB
    \/ \E l \in LoadIds : \E atomCount \in 0..1 :
            GuiLoadResolved(l, LoaderParsePDB(atomCount))
    \/ \E l \in LoadIds : LoadRejected(l)
    \/ \E o \in ObjectIds : \E fetched \in BOOLEAN : GuiVisualizeResumed(o, fetched)
    \/ \E type \in Representations : GuiRepresentationChange(type)
    \/ \E shaderName \in ShaderNames : GuiShaderChange(shaderName)
    \/ \E mode \in {"chain", "solid"} : GuiColoringChange(mode)
    \/ \E color \in SolidColors : GuiSolidColorChange(color)
    \/ \E prefix \in ShaderNames, baseColor \in BaseColors, numSteps \in NumSteps,
          roughness \in Roughnesses :
            GuiShaderParamChange(prefix, baseColor, numSteps, roughness)
SpecGui == GuiInit /\ [][GuiNext]_vars

\* The colour source the object's material uses: "chain" when it takes the
\* vertex colours and the uniform says not solid, "solid" when it takes no
\* vertex colours and the uniform says solid, "neither" otherwise.
ColorSource(mat) ==
    IF mat.vertexColors /\ mat.uniforms["uUseSolidColor"] = Val("boolean", 0)
    THEN "chain"
    ELSE IF ~mat.vertexColors /\ mat.uniforms["uUseSolidColor"] = Val("boolean", 1)
    THEN "solid"
    ELSE "neither"

\* C22 (as claimed): whenever the App holds a protein object, exactly one colour
\* source is authoritative on its material - vertexColors true with
\* uUseSolidColor false, or vertexColors false with uUseSolidColor true - and
\* that source is App.currentColorMode.
C22_ColorSourceConsistent ==
    (phase = "gui" /\ proteinObject # NoObject)
        => ColorSource(objectMaterial) = currentColorMode

\* C28 (as claimed): App.currentColorMode is the mode the colouring control
\* shows, in every state.
C28_ColorModeFollowsGui ==
    phase = "gui" => currentColorMode = params.coloring

\* ------------------------------------------------- parsePDB (utils/pdbParser)
\* A text is its lines (pdbText.split('\n')); a line is a sequence of characters.
\* Numbers read from the text are [nan, val]; parseFloat's values are in
\* thousandths, so that three decimals are integers.
Whitespace == {" ", "\t", "\r"}
DigitValue == ("0" :> 0) @@ ("1" :> 1) @@ ("2" :> 2) @@ ("3" :> 3) @@ ("4" :> 4)
              @@ ("5" :> 5) @@ ("6" :> 6) @@ ("7" :> 7) @@ ("8" :> 8) @@ ("9" :> 9)
NaN == [nan |-> TRUE, val |-> 0]
Num(v) == [nan |-> FALSE, val |-> v]

\* line.slice(from, to), 0-based, to exclusive.
Slice(line, from, to) ==
    SubSeq(line, from + 1, IF to < Len(line) THEN to ELSE Len(line))

\* s.trim()
Trim(s) ==
    LET keep == {i \in DOMAIN s : s[i] \notin Whitespace}
    IN IF keep = {} THEN <<>>
       ELSE SubSeq(s, CHOOSE i \in keep : \A j \in keep : i <= j,
                      CHOOSE i \in keep : \A j \in keep : j <= i)

\* line.startsWith(prefix)
StartsWith(line, prefix) ==
    Len(line) >= Len(prefix) /\ SubSeq(line, 1, Len(prefix)) = prefix

\* The number of consecutive digits of s from position from on.
DigitRun(s, from) ==
    Cardinality({k \in from..Len(s) : \A j \in from..k : s[j] \in DOMAIN DigitValue})

\* The value of a sequence of digits.
DigitsValue(s) ==
    LET F[i \in 0..Len(s)] == IF i = 0 THEN 0 ELSE 10 * F[i-1] + DigitValue[s[i]]
    IN F[Len(s)]

SignOf(s) == IF Len(s) > 0 /\ s[1] = "-" THEN -1 ELSE 1
AfterSign(s) == IF Len(s) > 0 /\ s[1] \in {"-", "+"} THEN 2 ELSE 1

\* parseInt(s) of a trimmed s: sign, then the leading digits; NaN without a digit.
ParseIntAt(s, start, n) ==
    IF n = 0 THEN NaN ELSE Num(SignOf(s) * DigitsValue(SubSeq(s, start, start + n - 1)))
parseInt(s) == ParseIntAt(s, AfterSign(s), DigitRun(s, AfterSign(s)))

\* The first three fraction digits as thousandths.
Thousandths(f) ==
    DigitsValue(SubSeq(f \o <<"0", "0", "0">>, 1, 3))

\* parseFloat(s) of a trimmed s: sign, digits, an optional point and digits; NaN
\* without a digit. (The texts hold no exponent.)
ParseFloatAt(s, start, n1, n2) ==
    IF n1 = 0 /\ n2 = 0 THEN NaN
    ELSE Num(SignOf(s) * (1000 * DigitsValue(SubSeq(s, start, start + n1 - 1))
                          + Thousandths(SubSeq(s, start + n1 + 1, start + n1 + n2))))
FractionRun(s, pointAt) ==
    IF pointAt <= Len(s) /\ s[pointAt] = "." THEN DigitRun(s, pointAt + 1) ELSE 0
parseFloat(s) ==
    ParseFloatAt(s, AfterSign(s), DigitRun(s, AfterSign(s)),
                 FractionRun(s, AfterSign(s) + DigitRun(s, AfterSign(s))))

\* Number(s) of a token without a point: 0 for the empty string, the integer for
\* an integer literal, NaN for anything else.
ToNumber(s) ==
    IF s = <<>> THEN Num(0)
    ELSE IF DigitRun(s, AfterSign(s)) > 0
            /\ AfterSign(s) + DigitRun(s, AfterSign(s)) = Len(s) + 1
    THEN parseInt(s)
    ELSE NaN

\* x || d for a number: the default replaces NaN and 0.
OrDefault(n, d) == IF n.nan \/ n.val = 0 THEN d ELSE n.val
\* s || d for a string: the default replaces the empty string.
OrText(s, d) == IF s = <<>> THEN d ELSE s

\* s.split(/\s+/) of a trimmed s.
SplitStep(acc, ch) ==
    IF ch \in Whitespace
    THEN (IF acc.cur = <<>> THEN acc
          ELSE [tokens |-> Append(acc.tokens, acc.cur), cur |-> <<>>])
    ELSE [acc EXCEPT !.cur = Append(@, ch)]
SplitWhitespace(s) ==
    LET F[i \in 0..Len(s)] ==
            IF i = 0 THEN [tokens |-> <<>>, cur |-> <<>>] ELSE SplitStep(F[i-1], s[i])
    IN IF s = <<>> THEN << <<>> >> ELSE Append(F[Len(s)].tokens, F[Len(s)].cur)

\* s[0] as a string: empty (undefined) for the empty string.
FirstChar(s) == IF s = <<>> THEN <<>> ELSE <<s[1]>>

\* The atom of an ATOM/HETATM line.
AtomOfLine(line) ==
    [serial |-> OrDefault(parseInt(Trim(Slice(line, 6, 11))), 0),
     name |-> OrText(Trim(Slice(line, 12, 16)), <<"U", "N", "K">>),
     resName |-> OrText(Trim(Slice(line, 17, 20)), <<"U", "N", "K">>),
     chainID |-> OrText(Trim(Slice(line, 21, 22)), <<"A">>)[1],
     resSeq |-> OrDefault(parseInt(Trim(Slice(line, 22, 26))), 0),
     x |-> OrDefault(parseFloat(Trim(Slice(line, 30, 38))), 0),
     y |-> OrDefault(parseFloat(Trim(Slice(line, 38, 46))), 0),
     z |-> OrDefault(parseFloat(Trim(Slice(line, 46, 54))), 0),
     occupancy |-> OrDefault(parseFloat(Trim(Slice(line, 54, 60))), 1000),
     tempFactor |-> OrDefault(parseFloat(Trim(Slice(line, 60, 66))), 0),
     element |-> OrText(Trim(Slice(line, 76, 78)),
                        OrText(FirstChar(Trim(Slice(line, 12, 16))), <<"C">>))]

\* chains.add(chainID) on a Set kept in insertion order.
AddChain(chains, chainID) ==
    IF \E i \in DOMAIN chains : chains[i] = chainID THEN chains ELSE Append(chains, chainID)

\* The bonds of a CONECT line whose numbers are connect.
ConectBonds(connect) ==
    IF Len(connect) < 2 THEN <<>>
    ELSE LET targets == SelectSeq(Tail(connect), LAMBDA t : ~t.nan)
         IN [i \in DOMAIN targets |-> <<connect[1], targets[i]>>]
NumbersOf(tokens) == [i \in DOMAIN tokens |-> ToNumber(tokens[i])]

HelixOfLine(line) ==
    [startChain |-> OrText(Trim(Slice(line, 19, 20)), <<"A">>)[1],
     startRes |-> OrDefault(parseInt(Trim(Slice(line, 21, 25))), 0),
     endChain |-> OrText(Trim(Slice(line, 31, 32)), <<"A">>)[1],
     endRes |-> OrDefault(parseInt(Trim(Slice(line, 33, 37))), 0)]
SheetOfLine(line) ==
    [startChain |-> OrText(Trim(Slice(line, 21, 22)), <<"A">>)[1],
     startRes |-> OrDefault(parseInt(Trim(Slice(line, 22, 26))), 0),
     endChain |-> OrText(Trim(Slice(line, 32, 33)), <<"A">>)[1],
     endRes |-> OrDefault(parseInt(Trim(Slice(line, 33, 37))), 0)]

ATOM == <<"A", "T", "O", "M">>
HETATM == <<"H", "E", "T", "A", "T", "M">>
CONECT == <<"C", "O", "N", "E", "C", "T">>
HELIX == <<"H", "E", "L", "I", "X">>
SHEET == <<"S", "H", "E", "E", "T">>

PushAtom(acc, atom) ==
    [acc EXCEPT !.atoms = Append(@, atom), !.chains = AddChain(@, atom.chainID)]

\* ParseLine without the HETATM records.
ParseLineAtomOnly(acc, line) ==
    IF StartsWith(line, ATOM) THEN PushAtom(acc, AtomOfLine(line)) ELSE acc

\* The body of lines.forEach: nothing in it throws, so the catch never runs.
ParseLine(acc, line) ==
    IF StartsWith(line, ATOM) \/ StartsWith(line, HETATM)
    THEN PushAtom(acc, AtomOfLine(line))
    ELSE IF StartsWith(line, CONECT)
    THEN [acc EXCEPT !.bonds =
            @ \o ConectBonds(NumbersOf(SplitWhitespace(Trim(Slice(line, 6, Len(line))))))]
    ELSE IF StartsWith(line, HELIX)
    THEN [acc EXCEPT !.helices = Append(@, HelixOfLine(line))]
    ELSE IF StartsWith(line, SHEET)
    THEN [acc EXCEPT !.sheets = Append(@, SheetOfLine(line))]
    ELSE acc

ParseLines(lines) ==
    LET F[i \in 0..Len(lines)] ==
            IF i = 0 THEN [atoms |-> <<>>, bonds |-> <<>>, helices |-> <<>>,
                           sheets |-> <<>>, chains |-> <<>>]
            ELSE ParseLine(F[i-1], lines[i])
    IN F[Len(lines)]

\* ParseResult without the terminal zero-atoms check.
ParseResultUnchecked(acc) ==
    [status |-> "ok", atoms |-> acc.atoms, bonds |-> acc.bonds,
     helices |-> acc.helices, sheets |-> acc.sheets, chains |-> acc.chains]

\* if (atoms.length === 0) throw ...; return { atoms, bonds, ... }
ParseResult(acc) ==
    IF Len(acc.atoms) = 0
    THEN [status |-> "error", message |-> "No valid atoms found in PDB file"]
    ELSE [status |-> "ok", atoms |-> acc.atoms, bonds |-> acc.bonds,
          helices |-> acc.helices, sheets |-> acc.sheets, chains |-> acc.chains]

\* pdbText.trim() === '' for the text whose lines these are.
IsBlankText(lines) == \A i \in DOMAIN lines : Trim(lines[i]) = <<>>

parsePDB(text) ==
    IF ~text.isString \/ IsBlankText(text.lines)
    THEN [status |-> "error", message |-> "Invalid PDB text provided"]
    ELSE ParseResult(ParseLines(text.lines))

\* ------------------------------------------------------- inputs of parsePDB
Blank(n) == [i \in 1..n |-> " "]
PadRight(s, n) == s \o Blank(n - Len(s))
PadLeft(s, n) == Blank(n - Len(s)) \o s
\* An ATOM/HETATM line in the fixed columns of the format.
AtomLine(rec, serial, name, resName, chain, resSeq, x, occupancy, element) ==
    PadRight(rec, 6) \o PadLeft(serial, 5) \o Blank(1) \o PadRight(name, 4) \o Blank(1)
    \o PadRight(resName, 3) \o Blank(1) \o PadRight(chain, 1) \o PadLeft(resSeq, 4)
    \o Blank(4) \o PadLeft(x, 8) \o PadLeft(<<"0", ".", "0", "0", "0">>, 8)
    \o PadLeft(<<"-", "2", ".", "5">>, 8) \o PadLeft(occupancy, 6)
    \o PadLeft(<<"1", "0", ".", "0", "0">>, 6) \o Blank(10) \o PadLeft(element, 2)
\* A HELIX line: chains in columns 19 and 31, residue numbers in 21-24 and 33-36.
HelixLine(startChain, startRes, endChain, endRes) ==
    PadRight(HELIX, 19) \o PadRight(startChain, 1) \o Blank(1) \o PadLeft(startRes, 4)
    \o Blank(6) \o PadRight(endChain, 1) \o Blank(1) \o PadLeft(endRes, 4)
\* A SHEET line: chains in columns 21 and 32, residue numbers in 22-25 and 33-36.
SheetLine(startChain, startRes, endChain, endRes) ==
    PadRight(SHEET, 21) \o PadRight(startChain, 1) \o PadLeft(startRes, 4) \o Blank(6)
    \o PadRight(endChain, 1) \o PadLeft(endRes, 4)

SampleLines ==
    { AtomLine(ATOM, <<"1">>, <<"C", "A">>, <<"A", "L", "A">>, <<"A">>, <<"1">>,
               <<"1", ".", "5">>, <<"1", ".", "0", "0">>, <<"C">>),
      AtomLine(ATOM, <<"2">>, <<"N">>, <<"G", "L", "Y">>, <<"B">>, <<"2">>,
               <<"-", "3", ".", "2", "5">>, <<"0", ".", "0", "0">>, <<>>),
      AtomLine(HETATM, <<>>, <<>>, <<>>, <<>>, <<>>, <<>>, <<>>, <<>>),
      ATOM,
      CONECT \o PadLeft(<<"1">>, 5) \o PadLeft(<<"2">>, 5),
      CONECT \o PadLeft(<<"1">>, 5) \o PadLeft(<<"x">>, 5) \o PadLeft(<<"1">>, 5),
      CONECT,
      HelixLine(<<"A">>, <<"1">>, <<"A">>, <<"2">>),
      HELIX,
      SheetLine(<<"B">>, <<"2">>, <<>>, <<"y">>),
      <<"R", "E", "M", "A", "R", "K">>,
      <<>>,
      Blank(2),
      Blank(1) \o ATOM }

\* The texts: one to MaxLines lines, and a value that is no string.
PdbTexts ==
    {[isString |-> TRUE, lines |-> ls] :
        ls \in UNION {[1..n -> SampleLines] : n \in 1..MaxLines}}
    \cup {[isString |-> FALSE, lines |-> <<>>]}

CallParsePDB ==
    /\ phase = "parse"
    /\ parsed' = parsePDB(pdbText)
    /\ phase' = "parseDone"
    /\ UNCHANGED <<appVars, geoVars, colVars, exportVars, shaderVars, guiVars, pdbText>>

ParseInit ==
    /\ AppInit
    /\ atoms = <<>> /\ geometry = NoGeometry
    /\ chainColorMap = <<>> /\ colorLog = <<>> /\ lastCall = NoCall
    /\ pdbText \in PdbTexts
    /\ parsed = [status |-> "none"]
    /\ ToolsIdle
    /\ phase = "parse"
ParseNext == CallParsePDB
SpecParse == ParseInit /\ [][ParseNext]_vars

\* ------------------------------------------------------- claims on parsePDB
\* The lines of the text that are ATOM or HETATM records.
AtomRecordLines ==
    {i \in DOMAIN pdbText.lines :
        \/ Len(pdbText.lines[i]) >= 4 /\ SubSeq(pdbText.lines[i], 1, 4) = ATOM
        \/ Len(pdbText.lines[i]) >= 6 /\ SubSeq(pdbText.lines[i], 1, 6) = HETATM}
\* The text has a character that is not whitespace.
HasInk ==
    \E i \in DOMAIN pdbText.lines :
        \E j \in DOMAIN pdbText.lines[i] : pdbText.lines[i][j] \notin Whitespace

\* C5: parsePDB fails exactly when its input is no string, is empty or only
\* whitespace, or holds no ATOM/HETATM record; a failure returns no structure.
C5_FailsExactlyOnNoAtoms ==
    phase = "parseDone" =>
        /\ parsed.status \in {"ok", "error"}
        /\ parsed.status = "error"
             <=> (~pdbText.isString \/ ~HasInk \/ AtomRecordLines = {})
        /\ parsed.status = "error" => DOMAIN parsed = {"status", "message"}
\* Witness of C5: a text with ink but without ATOM/HETATM records was refused.
C5_Witness ==
    /\ phase = "parseDone" /\ parsed.status = "error"
    /\ pdbText.isString /\ HasInk /\ Len(pdbText.lines) >= 2

\* C6: a text with at least one ATOM/HETATM record parses, whatever its other
\* lines hold, to one atom per ATOM/HETATM line, and chains is the set of the
\* atoms' chain IDs without repetition.
C6_OneAtomPerRecord ==
    (phase = "parseDone" /\ pdbText.isString /\ AtomRecordLines # {}) =>
        /\ parsed.status = "ok"
        /\ Len(parsed.atoms) = Cardinality(AtomRecordLines)
        /\ Len(parsed.atoms) >= 1
        /\ \A i, j \in DOMAIN parsed.chains : i # j => parsed.chains[i] # parsed.chains[j]
        /\ {parsed.chains[i] : i \in DOMAIN parsed.chains}
             = {parsed.atoms[i].chainID : i \in DOMAIN parsed.atoms}
        /\ Len(parsed.chains) >= 1
\* Witness of C6: atoms were returned from a text that also holds a line which is
\* no ATOM/HETATM record and no well-formed record of another kind.
C6_Witness ==
    /\ phase = "parseDone" /\ parsed.status = "ok"
    /\ Cardinality(AtomRecordLines) >= 1
    /\ \E i \in DOMAIN pdbText.lines :
         pdbText.lines[i] \in {CONECT, HELIX, Blank(1) \o ATOM}

\* C17 (as claimed): every bond of a returned structure joins two different
\* serial IDs, both numbers and both the serial of a returned atom.
C17_BondsJoinReturnedAtoms ==
    (phase = "parseDone" /\ parsed.status = "ok") =>
        \A i \in DOMAIN parsed.bonds :
            /\ ~parsed.bonds[i][1].nan /\ ~parsed.bonds[i][2].nan
            /\ \E a \in DOMAIN parsed.atoms :
                    parsed.atoms[a].serial = parsed.bonds[i][1].val
            /\ \E a \in DOMAIN parsed.atoms :
                    parsed.atoms[a].serial = parsed.bonds[i][2].val
            /\ parsed.bonds[i][1].val # parsed.bonds[i][2].val

\* C18 (as claimed): no two atoms of a returned structure have the same serial
\* ID.
C18_SerialsUnique ==
    (phase = "parseDone" /\ parsed.status = "ok") =>
        \A i, j \in DOMAIN parsed.atoms :
            i # j => parsed.atoms[i].serial # parsed.atoms[j].serial

\* The ATOM/HETATM lines of the text, in the order of the text.
IsAtomRecord(line) == StartsWith(line, ATOM) \/ StartsWith(line, HETATM)
AtomRecordSeq == SelectSeq(pdbText.lines, IsAtomRecord)
\* A numeric field as the claim words it: the parsed number, zero included, and
\* the default only when the columns do not parse to a number.
NumberOrDefault(n, d) == IF n.nan THEN d ELSE n.val

\* C25 (as claimed): in every returned atom the occupancy is the number its
\* columns parse to, zero included, and 1.0 only when they do not parse; serial,
\* residue number, coordinates and temperature factor are the parsed number or
\* 0; a blank chain ID is "A"; a blank element is the first letter of the atom
\* name, or "C" when the name is blank as well.
C25_DefaultsOnlyWhenUnparseable ==
    (phase = "parseDone" /\ parsed.status = "ok"
        /\ Len(parsed.atoms) = Len(AtomRecordSeq)) =>
        \A k \in DOMAIN parsed.atoms :
            /\ parsed.atoms[k].occupancy =
                  NumberOrDefault(parseFloat(Trim(Slice(AtomRecordSeq[k], 54, 60))), 1000)
            /\ parsed.atoms[k].serial =
                  NumberOrDefault(parseInt(Trim(Slice(AtomRecordSeq[k], 6, 11))), 0)
            /\ parsed.atoms[k].resSeq =
                  NumberOrDefault(parseInt(Trim(Slice(AtomRecordSeq[k], 22, 26))), 0)
            /\ parsed.atoms[k].x =
                  NumberOrDefault(parseFloat(Trim(Slice(AtomRecordSeq[k], 30, 38))), 0)
            /\ parsed.atoms[k].y =
                  NumberOrDefault(parseFloat(Trim(Slice(AtomRecordSeq[k], 38, 46))), 0)
            /\ parsed.atoms[k].z =
                  NumberOrDefault(parseFloat(Trim(Slice(AtomRecordSeq[k], 46, 54))), 0)
            /\ parsed.atoms[k].tempFactor =
                  NumberOrDefault(parseFloat(Trim(Slice(AtomRecordSeq[k], 60, 66))), 0)
            /\ parsed.atoms[k].chainID =
                  (IF Trim(Slice(AtomRecordSeq[k], 21, 22)) = <<>> THEN "A"
                   ELSE Trim(Slice(AtomRecordSeq[k], 21, 22))[1])
            /\ parsed.atoms[k].element =
                  (IF Trim(Slice(AtomRecordSeq[k], 76, 78)) # <<>>
                   THEN Trim(Slice(AtomRecordSeq[k], 76, 78))
                   ELSE IF Trim(Slice(AtomRecordSeq[k], 12, 16)) # <<>>
                   THEN <<Trim(Slice(AtomRecordSeq[k], 12, 16))[1]>>
                   ELSE <<"C">>)

\* A HELIX or SHEET line is well formed when both chain columns hold a
\* character and both residue-number columns parse to a number.
HelixWellFormed(line) ==
    /\ Trim(Slice(line, 19, 20)) # <<>> /\ ~parseInt(Trim(Slice(line, 21, 25))).nan
    /\ Trim(Slice(line, 31, 32)) # <<>> /\ ~parseInt(Trim(Slice(line, 33, 37))).nan
SheetWellFormed(line) ==
    /\ Trim(Slice(line, 21, 22)) # <<>> /\ ~parseInt(Trim(Slice(line, 22, 26))).nan
    /\ Trim(Slice(line, 32, 33)) # <<>> /\ ~parseInt(Trim(Slice(line, 33, 37))).nan
IsWellFormedHelix(line) == StartsWith(line, HELIX) /\ HelixWellFormed(line)
IsWellFormedSheet(line) == StartsWith(line, SHEET) /\ SheetWellFormed(line)

\* C26 (as claimed): a text with atoms parses whatever its HELIX and SHEET
\* lines hold, and helices and sheets hold one record per well-formed line and
\* none for a malformed one.
C26_MalformedStructureSkipped ==
    (phase = "parseDone" /\ pdbText.isString /\ AtomRecordLines # {}) =>
        /\ parsed.status = "ok"
        /\ Len(parsed.helices) = Len(SelectSeq(pdbText.lines, IsWellFormedHelix))
        /\ Len(parsed.sheets) = Len(SelectSeq(pdbText.lines, IsWellFormedSheet))

\* ------------------------------------------------------------ claims on App
\* No load is pending and no visualizeProtein run is suspended.
Quiescent == vizRuns = {} /\ \A l \in LoadIds : loadState[l] # "pending"

\* C1 (as claimed): once every load and visualization has finished, the scene
\* holds at most one protein object, the one App.proteinObject references, and
\* every object that was added and is no longer referenced is out of the scene
\* and disposed.
C1_SingleOwnedObject ==
    Quiescent =>
        /\ scene \subseteq {proteinObject}
        /\ \A o \in added : o # proteinObject => (o \notin scene /\ o \in disposed)

\* C2 (as claimed): last load wins. Once all loads have completed and the load
\* started last has delivered data, App.proteinData is that load's data.
C2_LastLoadWins ==
    (/\ Len(loadOrder) >= 2
     /\ \A l \in LoadIds : loadState[l] # "pending"
     /\ loadState[loadOrder[Len(loadOrder)]] \in {"ok", "empty"})
    => proteinData = loadOrder[Len(loadOrder)]

\* C15 (as claimed): replacing the displayed protein is all-or-nothing. Once an
\* object has been displayed and no visualizeProtein run is suspended, the scene
\* still holds a protein object: a run whose createRepresentation yields no
\* object leaves the previous object in the scene, undisposed.
C15_ReplaceAllOrNothing ==
    (vizRuns = {} /\ added # {}) =>
        /\ scene # {}
        /\ \E o \in scene : o \notin disposed

\* C16 (as claimed): a load whose text yields zero atoms is rejected, so
\* handlePDBLoaded never receives an atom-less structure and App.proteinData
\* never is one.
C16_AtomlessLoadRejected ==
    /\ \A l \in LoadIds : loadState[l] # "empty"
    /\ proteinData # NoData => loadState[proteinData] = "ok"

\* C27 (as claimed): once no load and no visualization is in flight, every
\* protein object in the scene, and the one the App references, was built from
\* App.proteinData with App.currentRepresentation and App.currentShaderName.
C27_LatestSettingsShown ==
    (phase = "app" /\ Quiescent) =>
        \A o \in scene \cup ({proteinObject} \ {NoObject}) :
            objInfo[o] = NewInfo(proteinData, currentRepresentation, currentShaderName)

\* C30 (as claimed): the loading indicator is shown in every state in which a
\* load or a visualizeProtein run is in flight, and hidden when none is.
C30_IndicatorTracksWork ==
    phase = "app" => (loadingShown <=> ~Quiescent)

Init ==
    /\ AppInit
    /\ PureIdle
    /\ phase = "app"

Next ==
    \/ LoadPDB
    \/ \E l \in LoadIds : \E atomCount \in 0..MaxAtoms :
            LoadResolved(l, LoaderParsePDB(atomCount))
    \/ \E l \in LoadIds : LoadRejected(l)
    \/ \E o \in ObjectIds : \E fetched \in BOOLEAN : VisualizeResumed(o, fetched)
    \/ \E type \in Representations : setRepresentation(type)
    \/ \E shaderName \in ShaderNames : setActiveShader(shaderName)

Spec == Init /\ [][Next]_vars

\* The loader's promise of load l settles: fetch and FileReader always end in
\* a response or an error, and the continuation of the await is then run.
LoadSettles(l) ==
    \/ \E atomCount \in 0..MaxAtoms : LoadResolved(l, LoaderParsePDB(atomCount))
    \/ LoadRejected(l)
SpecLoads == Init /\ [][Next]_vars /\ \A l \in LoadIds : WF_vars(LoadSettles(l))

\* The outcomes of a load: handlePDBLoaded was called ("ok", "empty") or
\* handlePDBLoadError was ("error").
Settled == {"ok", "empty", "error"}

\* C29: every load request that was started eventually ends in handlePDBLoaded
\* or in handlePDBLoadError; it ends once, in one of the two, and its outcome
\* never changes afterwards; and the step that ends it in handlePDBLoadError
\* leaves App.proteinData, App.proteinObject and the scene as they were.
C29_LoadEndsOnceErrorKeepsState ==
    /\ \A l \in LoadIds : (loadState[l] = "pending") ~> (loadState[l] \in Settled)
    /\ [][\A l \in LoadIds :
            /\ loadState[l] \in Settled => loadState'[l] = loadState[l]
            /\ loadState'[l] \in Settled /\ loadState[l] \notin Settled
                 => loadState[l] = "pending"
            /\ (loadState[l] = "pending" /\ loadState'[l] = "error")
                 => UNCHANGED <<proteinData, proteinObject, scene>>]_vars
\* Witness of C29: a load ended in handlePDBLoadError while the protein of an
\* earlier load is displayed.
C29_Witness ==
    /\ phase = "app"
    /\ \E l \in LoadIds : loadState[l] = "error"
    /\ \E l \in LoadIds : loadState[l] = "ok" /\ proteinData = l
    /\ proteinObject # NoObject /\ proteinObject \in scene

====
